---- MODULE Spec2Model ----
(***************************************************************************)
(* Storage and synchronisation core of planungstool-web:                   *)
(*   EncryptionService (src/lib/services/encryption.ts),                   *)
(*   BrowserStorage    (src/lib/services/storage.ts),                      *)
(*   SyncService       (src/unnamed/part_004, the version with backups;    *)
(*                      src/lib/services/syncService.ts, whose uploadAll   *)
(*                      takes no backup, is the copy "lib" of uploadAll).  *)
(*                                                                         *)
(* Strings are sequences of tokens.  A token is a tuple whose first        *)
(* element is its tag: <<"chr", c>> one character, <<"hex", n>> the hex    *)
(* text of a random word array, <<"ct", key, iv, plain>> the Base64 text   *)
(* of an AES-CBC ciphertext.  Hex and Base64 text never contain ':'.       *)
(* null/undefined is the one-token value Null.                             *)
(*                                                                         *)
(* Every await of the asynchronous methods is a separate step of a call    *)
(* record (calls[d][s]); the IndexedDB requests of one storage method are  *)
(* taken as one step, and so are the select of downloadDataType and the    *)
(* store write that follows it.                                            *)
(***************************************************************************)
EXTENDS Integers, Sequences, FiniteSets, TLC

(* ------------------------------ bounds -------------------------------- *)
\* the clock runs over 1..MaxTime (milliseconds of Date.now())
MaxTime == 2
\* call records per device (concurrently pending promises)
MaxCalls == 2
\* backup rows ever inserted (ids 1..MaxBackupId)
MaxBackupId == 4

(* --------------------------- program constants ------------------------ *)
\* the keys of SYNCABLE_KEYS the model instantiates, in list order
SYNCABLE_KEYS == <<"classes", "exams", "appSettings">>
\* the keys of ENCRYPTED_KEYS the model instantiates
ENCRYPTED_KEYS == <<"classes", "exams">>
PASSWORD_CHECK_KEY == "passwordCheck"
\* the key of the ledger in the object store (the ledger is the variable
\* timestamps)
TIMESTAMPS_KEY == "localTimestamps"
KEEP_BACKUPS == 3

Devices == {"d1", "d2"}
Slots == 1..MaxCalls
\* a missing timestamp (null / undefined ledger entry)
NoTs == 0
NoUser == "none"
NoPassword == "none"
Salts == {"s1", "s2"}

SeqToSet(s) == {s[i] : i \in 1..Len(s)}
SyncableSet == SeqToSet(SYNCABLE_KEYS)
EncryptedSet == SeqToSet(ENCRYPTED_KEYS)
DbKeys == SyncableSet \cup EncryptedSet \cup {PASSWORD_CHECK_KEY}

(* ------------------------------ strings ------------------------------- *)
Chr(c) == <<"chr", c>>
Colon == Chr(":")
Hex(n) == <<"hex", n>>
Null == << <<"null">> >>
EmptyString == << >>
Str1(a) == <<Chr(a)>>
Str5(a, b, c, d, e) == <<Chr(a), Chr(b), Chr(c), Chr(d), Chr(e)>>
PASSWORD_CHECK_VALUE == Str5("V", "A", "L", "I", "D")

\* JavaScript truthiness of a string-or-null value: !data
Falsy(v) == v = Null \/ v = EmptyString

\* String.prototype.split(':')
RECURSIVE SplitFrom(_, _, _)
SplitFrom(s, i, cur) ==
    IF i > Len(s) THEN <<cur>>
    ELSE IF s[i] = Colon THEN <<cur>> \o SplitFrom(s, i + 1, << >>)
    ELSE SplitFrom(s, i + 1, Append(cur, s[i]))
Split(s) == SplitFrom(s, 1, << >>)

\* value.includes(':') && value.split(':').length === 3
LooksEncrypted(v) ==
    /\ v # Null
    /\ \E i \in 1..Len(v) : v[i] = Colon
    /\ Len(Split(v)) = 3

(* ---------------------------- EncryptionService ----------------------- *)
\* PBKDF2(password, salt): a function of exactly the pair
deriveKey(password, salt) == <<"key", password, salt>>

\* encrypt(data, password) with the random salt and iv it drew
encrypt(data, password, salt, iv) ==
    <<Hex(salt), Colon, Hex(iv), Colon,
      <<"ct", deriveKey(password, <<Hex(salt)>>), <<Hex(iv)>>, data>> >>

\* AES.decrypt(ciphertext, key, {iv}).toString(Utf8): the plaintext when the
\* text is one ciphertext made under this key and iv.  Under another key or
\* iv, or for text that is no ciphertext, the unpadded bytes are taken to be
\* empty or malformed UTF-8 (the outcome for all but about 1 in 250 random
\* blocks), which decrypt turns into its error.
AesDecrypt(ciphertext, key, iv) ==
    IF /\ Len(ciphertext) = 1
       /\ ciphertext[1][1] = "ct"
       /\ ciphertext[1][2] = key
       /\ ciphertext[1][3] = iv
    THEN ciphertext[1][4]
    ELSE EmptyString

\* ---- JSON text over the characters of the model: digits, the space, the
\* double quote and letters.  A text is a number literal or a string literal,
\* with white space around it; every other text of these characters is not
\* JSON.
Space == Chr(" ")
Quote == Chr("\"")
Digits == {Chr("0"), Chr("1")}
Letters == {Chr("a"), Chr("b"), Chr("c"), Chr("V"), Chr("A"), Chr("L"), Chr("I"), Chr("D")}

\* typeof v === 'string': every value that is not a parsed JSON value or null
IsString(v) == \A i \in 1..Len(v) : v[i][1] \in {"chr", "hex", "ct"}
\* the number a literal denotes, as a JavaScript value
NumberValue(digits) == << <<"number", digits>> >>

RECURSIVE TrimStart(_)
TrimStart(s) == IF s # << >> /\ Head(s) = Space THEN TrimStart(Tail(s)) ELSE s
RECURSIVE TrimEnd(_)
TrimEnd(s) ==
    IF s # << >> /\ s[Len(s)] = Space THEN TrimEnd(SubSeq(s, 1, Len(s) - 1)) ELSE s
Trim(s) == TrimEnd(TrimStart(s))

\* JSON.parse(text): ok = FALSE is the SyntaxError
JsonParse(text) ==
    LET t == Trim(text)
        inner == SubSeq(t, 2, Len(t) - 1)
    IN  IF /\ t # << >>
           /\ \A i \in 1..Len(t) : t[i] \in Digits
           /\ (Len(t) = 1 \/ t[1] # Chr("0"))
        THEN [ok |-> TRUE, value |-> NumberValue(t)]
        ELSE IF /\ Len(t) >= 2
                /\ t[1] = Quote /\ t[Len(t)] = Quote
                /\ \A i \in 1..Len(inner) : inner[i] \in Digits \cup Letters \cup {Space, Colon}
        THEN [ok |-> TRUE, value |-> inner]
        ELSE [ok |-> FALSE, value |-> Null]

\* JSON.stringify(value) of a value that is not a string
JsonStringify(value) ==
    IF value # << >> /\ value[1][1] = "number" THEN value[1][2] ELSE value

\* decrypt(encryptedData, password): ok = FALSE is the thrown error; the
\* decrypted text is returned parsed when it is JSON text
decrypt(encryptedData, password) ==
    LET parts == Split(encryptedData) IN
    IF Len(parts) # 3 THEN [ok |-> FALSE, value |-> EmptyString]
    ELSE LET decryptedString ==
                 AesDecrypt(parts[3], deriveKey(password, parts[1]), parts[2])
         IN  IF decryptedString = EmptyString
             THEN [ok |-> FALSE, value |-> EmptyString]
             ELSE IF JsonParse(decryptedString).ok
             THEN [ok |-> TRUE, value |-> JsonParse(decryptedString).value]
             ELSE [ok |-> TRUE, value |-> decryptedString]

\* the key cache after deriveKey(password, salt): keyCache.set(cacheKey, key).
\* The cache is the set of its cache keys; the eviction of the oldest entry
\* needs more than 100 entries, which the passwords and salts of the model
\* never make.
CacheKey(password, salt) == <<password, Colon, salt>>
DeriveKeyCached(cache, password, salt) == cache \cup {CacheKey(password, salt)}
\* the key cache after encrypt(data, password) drew salt
EncryptCached(cache, password, salt) == DeriveKeyCached(cache, password, <<Hex(salt)>>)
\* the key cache after decrypt(encryptedData, password)
DecryptCached(cache, encryptedData, password) ==
    IF Len(Split(encryptedData)) # 3 THEN cache
    ELSE DeriveKeyCached(cache, password, Split(encryptedData)[1])

(* ------------------------------- state -------------------------------- *)
VARIABLES
    clock,              \* Date.now()
    db,                 \* db[d][key]: the IndexedDB object store 'data' of device d
    timestamps,         \* timestamps[d][key]: the parsed 'localTimestamps' entry
    password,           \* password[d]: BrowserStorage.password
    authUser,           \* authUser[d]: the user of the Supabase session, or NoUser
    user_data,          \* rows of the remote table user_data
    user_data_backups,  \* rows of the remote table user_data_backups
    nextBackupId,       \* the id the next inserted backup row gets
    isSyncing,          \* isSyncing[d]: SyncService.isSyncing
    calls,              \* calls[d][s]: the pending promise s of device d
    migrations,         \* migrations[d]: the stores left by the migrate calls
                        \* made back-to-back on d (history)
    lastWrite,          \* lastWrite[d][key]: the raw value and the time of the
                        \* last setItem of d on key (history)
    supabase,           \* TRUE when the Supabase client is configured (not null)
    keyCache,           \* keyCache[d]: the keys of EncryptionService.keyCache
    returned,           \* returned[d]: the last storage call of d that
                        \* returned a value, and what it returned (history)
    syncProvider        \* syncProvider[d]: the state of the SyncProvider of d
                        \* and the values its registered handler closed over

storeVars == <<db, timestamps, password>>
remoteVars == <<user_data, user_data_backups, nextBackupId>>
syncVars == <<isSyncing, calls>>
vars == <<clock, db, timestamps, password, authUser, user_data,
          user_data_backups, nextBackupId, isSyncing, calls, migrations,
          lastWrite, supabase, keyCache, returned, syncProvider>>

(* ---------------------------- BrowserStorage -------------------------- *)
shouldEncrypt(key) == key \in EncryptedSet

EmptyDb == [k \in DbKeys |-> Null]
EmptyLedger == [k \in SyncableSet |-> NoTs]
NoWrite == [value |-> Null, at |-> NoTs]

\* updateTimestamp(key): timestamps[key] = new Date().toISOString()
updateTimestamp(ledger, key, now) == [ledger EXCEPT ![key] = now]

\* setItem(key, value); salt and iv are what encrypt draws.  Without a
\* password an encrypted key throws before anything is written.
SetItem(d, key, value, salt, iv) ==
    /\ shouldEncrypt(key) => password[d] # NoPassword
    /\ db' = [db EXCEPT ![d][key] =
                 IF shouldEncrypt(key)
                 THEN encrypt(value, password[d], salt, iv)
                 ELSE value]
    /\ timestamps' = IF key \in SyncableSet
                     THEN [timestamps EXCEPT ![d] = updateTimestamp(@, key, clock)]
                     ELSE timestamps
    /\ keyCache' = IF shouldEncrypt(key)
                   THEN [keyCache EXCEPT ![d] = EncryptCached(@, password[d], salt)]
                   ELSE keyCache
    /\ migrations' = [migrations EXCEPT ![d] = << >>]
    /\ UNCHANGED <<clock, password, authUser, supabase, syncProvider, returned, remoteVars, syncVars>>

\* setItem(key, value) from its call to its return: the store it leaves and
\* whether it threw.  The check of the password (line 100) comes before the
\* put; the ledger entry is written after it.
\* (a variant that puts the value as it is and then looks for the password)
setItemPutFirst(store, key, value, salt, iv, now) ==
    IF shouldEncrypt(key) /\ store.password = NoPassword
    THEN [store |-> [store EXCEPT !.db[key] = value], threw |-> TRUE]
    ELSE [store |-> [store EXCEPT
                        !.db[key] = IF shouldEncrypt(key)
                                    THEN encrypt(value, store.password, salt, iv)
                                    ELSE value,
                        !.timestamps = IF key \in SyncableSet
                                       THEN updateTimestamp(@, key, now) ELSE @],
          threw |-> FALSE]
setItem(store, key, value, salt, iv, now) ==
    IF shouldEncrypt(key) /\ store.password = NoPassword
    THEN [store |-> store, threw |-> TRUE]
    ELSE [store |-> [store EXCEPT
                        !.db[key] = IF shouldEncrypt(key)
                                    THEN encrypt(value, store.password, salt, iv)
                                    ELSE value,
                        !.timestamps = IF key \in SyncableSet
                                       THEN updateTimestamp(@, key, now) ELSE @],
          threw |-> FALSE]

\* history: the write of d on key that is being made
Logged(d, key) ==
    lastWrite' = [lastWrite EXCEPT ![d][key] = [value |-> db'[d][key], at |-> clock]]

\* removeItem(key): the ledger entry stays
RemoveItem(d, key) ==
    /\ db[d][key] # Null
    /\ db' = [db EXCEPT ![d][key] = Null]
    /\ migrations' = [migrations EXCEPT ![d] = << >>]
    /\ UNCHANGED <<clock, timestamps, password, authUser, supabase, syncProvider, keyCache, returned, remoteVars, syncVars, lastWrite>>

\* clear(): empties the object store, the ledger entry included
Clear(d) ==
    /\ db[d] # EmptyDb
    /\ db' = [db EXCEPT ![d] = EmptyDb]
    /\ timestamps' = [timestamps EXCEPT ![d] = EmptyLedger]
    /\ migrations' = [migrations EXCEPT ![d] = << >>]
    /\ UNCHANGED <<clock, password, authUser, supabase, syncProvider, keyCache, returned, remoteVars, syncVars, lastWrite>>

\* a faulty setRawItemWithTimestamp: the value is put, the ledger is left
\* as it was
setRawItemKeepsLedger(store, key, value, timestamp, outcome) ==
    [db |-> IF outcome = "putFails" THEN store.db
            ELSE [store.db EXCEPT ![key] = value],
     timestamps |-> store.timestamps]

\* setRawItemWithTimestamp(key, value, timestamp): the value is put first,
\* then the ledger; outcome names the request that rejected, if any
setRawItemWithTimestamp(store, key, value, timestamp, outcome) ==
    [db |-> IF outcome = "putFails" THEN store.db
            ELSE [store.db EXCEPT ![key] = value],
     timestamps |-> IF outcome = "ok"
                    THEN [store.timestamps EXCEPT ![key] = timestamp]
                    ELSE store.timestamps]
StorageOutcomes == {"ok", "putFails", "ledgerFails"}

\* one key of the loop of migrateUnencryptedData
MigrateKey(value, pw, salt, iv, putOk) ==
    IF value = Null THEN value
    ELSE IF LooksEncrypted(value) /\ decrypt(value, pw).ok THEN value
    ELSE IF putOk THEN encrypt(value, pw, salt, iv)
    ELSE value

\* the key cache after the loop of migrateUnencryptedData from key i on
RECURSIVE MigrateCache(_, _, _, _, _)
MigrateCache(cache, i, store, pw, rnd) ==
    IF i > Len(ENCRYPTED_KEYS) THEN cache
    ELSE LET k == ENCRYPTED_KEYS[i]
             value == store[k]
             tried == IF LooksEncrypted(value)
                      THEN DecryptCached(cache, value, pw) ELSE cache
         IN  IF value = Null THEN MigrateCache(cache, i + 1, store, pw, rnd)
             ELSE IF LooksEncrypted(value) /\ decrypt(value, pw).ok
             THEN MigrateCache(tried, i + 1, store, pw, rnd)
             ELSE MigrateCache(EncryptCached(tried, pw, rnd[k][1]), i + 1, store, pw, rnd)

\* migrateUnencryptedData(): throws without a password; rnd[k] is the salt
\* and iv drawn for key k, putOk[k] whether its db.put resolved
MigrateUnencryptedData(d) ==
    /\ password[d] # NoPassword
    /\ Len(migrations[d]) < 2
    /\ \E rnd \in [EncryptedSet -> Salts \X Salts], putOk \in [EncryptedSet -> BOOLEAN] :
         LET after == [k \in DbKeys |->
                         IF k \in EncryptedSet
                         THEN MigrateKey(db[d][k], password[d], rnd[k][1], rnd[k][2], putOk[k])
                         ELSE db[d][k]]
             failed == \E k \in EncryptedSet :
                          ~putOk[k] /\ MigrateKey(db[d][k], password[d], rnd[k][1], rnd[k][2], TRUE) # db[d][k]
         IN  /\ db' = [db EXCEPT ![d] = after]
             /\ keyCache' = [keyCache EXCEPT ![d] =
                                MigrateCache(@, 1, db[d], password[d], rnd)]
             /\ migrations' = [migrations EXCEPT ![d] =
                                  Append(@, [db |-> after, failed |-> failed])]
    /\ UNCHANGED <<clock, timestamps, password, authUser, supabase, syncProvider, returned, remoteVars, syncVars, lastWrite>>

\* getItem(key) on the stored value: threw = TRUE is the thrown error
getItem(value, key, pw) ==
    IF value = Null THEN [threw |-> FALSE, value |-> Null]
    ELSE IF ~shouldEncrypt(key) THEN [threw |-> FALSE, value |-> value]
    ELSE IF pw = NoPassword THEN [threw |-> TRUE, value |-> Null]
    ELSE IF LooksEncrypted(value)
    THEN LET decrypted == decrypt(value, pw) IN
         IF ~decrypted.ok THEN [threw |-> TRUE, value |-> Null]
         ELSE [threw |-> FALSE,
               value |-> IF IsString(decrypted.value) THEN decrypted.value
                         ELSE JsonStringify(decrypted.value)]
    ELSE [threw |-> FALSE, value |-> value]

StoreOf(d) == [db |-> db[d], timestamps |-> timestamps[d], password |-> password[d]]
\* history: what the storage call that returned last on d returned; turn
\* tells two calls with the same answer apart
Answer(d, op, key, arg, threw, value, truth) ==
    [op |-> op, key |-> key, arg |-> arg, threw |-> threw, value |-> value,
     truth |-> truth, turn |-> 1 - returned[d].turn]

\* setItem(key, value) awaited by its caller: it returns or throws
SetItemAwaited(d, key, value, salt, iv) ==
    /\ LET r == setItem(StoreOf(d), key, value, salt, iv, clock) IN
         /\ db' = [db EXCEPT ![d] = r.store.db]
         /\ timestamps' = [timestamps EXCEPT ![d] = r.store.timestamps]
         /\ returned' = [returned EXCEPT ![d] =
                Answer(d, "setItem", key, "none", r.threw, Null, FALSE)]
         /\ keyCache' = IF shouldEncrypt(key) /\ ~r.threw
                        THEN [keyCache EXCEPT ![d] = EncryptCached(@, password[d], salt)]
                        ELSE keyCache
         /\ migrations' = IF r.threw THEN migrations
                          ELSE [migrations EXCEPT ![d] = << >>]
    /\ UNCHANGED <<clock, password, authUser, supabase, syncProvider, remoteVars, syncVars, lastWrite>>

\* getItem(key)
GetItem(d, key) ==
    /\ LET r == getItem(db[d][key], key, password[d]) IN
       returned' = [returned EXCEPT ![d] =
           Answer(d, "getItem", key, "none", r.threw, r.value, FALSE)]
    /\ keyCache' = IF /\ db[d][key] # Null /\ shouldEncrypt(key)
                      /\ password[d] # NoPassword /\ LooksEncrypted(db[d][key])
                   THEN [keyCache EXCEPT ![d] = DecryptCached(@, db[d][key], password[d])]
                   ELSE keyCache
    /\ UNCHANGED <<clock, storeVars, authUser, supabase, syncProvider, remoteVars, syncVars, migrations, lastWrite>>

\* a faulty validatePassword: the error of decrypt is not caught
validatePasswordNoCatch(encrypted, pw) ==
    IF Falsy(encrypted) THEN [threw |-> FALSE, truth |-> FALSE]
    ELSE LET decrypted == decrypt(encrypted, pw) IN
         IF ~decrypted.ok THEN [threw |-> TRUE, truth |-> FALSE]
         ELSE [threw |-> FALSE, truth |-> decrypted.value = PASSWORD_CHECK_VALUE]

\* validatePassword(password) on the stored sentinel: every error is caught
validatePassword(encrypted, pw) ==
    IF Falsy(encrypted) THEN [threw |-> FALSE, truth |-> FALSE]
    ELSE LET decrypted == decrypt(encrypted, pw) IN
         IF ~decrypted.ok THEN [threw |-> FALSE, truth |-> FALSE]
         ELSE [threw |-> FALSE, truth |-> decrypted.value = PASSWORD_CHECK_VALUE]

ValidatePasswordCached(cache, encrypted, pw) ==
    IF Falsy(encrypted) THEN cache ELSE DecryptCached(cache, encrypted, pw)

\* validatePassword(password)
ValidatePassword(d, pw) ==
    /\ LET r == validatePassword(db[d][PASSWORD_CHECK_KEY], pw) IN
       returned' = [returned EXCEPT ![d] =
           Answer(d, "validatePassword", PASSWORD_CHECK_KEY, pw, r.threw, Null, r.truth)]
    /\ keyCache' = [keyCache EXCEPT ![d] =
                       ValidatePasswordCached(@, db[d][PASSWORD_CHECK_KEY], pw)]
    /\ UNCHANGED <<clock, storeVars, authUser, supabase, syncProvider, remoteVars, syncVars, migrations, lastWrite>>

\* hasPassword(): encrypted !== undefined && encrypted !== null
hasPassword(store) == store[PASSWORD_CHECK_KEY] # Null
\* hasPasswordInMemory(): this.password !== null
hasPasswordInMemory(pw) == pw # NoPassword
\* getRawItem(key): value ?? null
getRawItem(store, key) == store[key]
HasPassword(d) ==
    /\ returned' = [returned EXCEPT ![d] =
           Answer(d, "hasPassword", PASSWORD_CHECK_KEY, "none", FALSE, Null, hasPassword(db[d]))]
    /\ UNCHANGED <<clock, storeVars, authUser, supabase, syncProvider, keyCache, remoteVars, syncVars, migrations, lastWrite>>

\* setPassword(password)
SetPassword(d, pw) ==
    /\ password' = [password EXCEPT ![d] = pw]
    /\ UNCHANGED <<clock, db, timestamps, authUser, supabase, syncProvider, keyCache, returned, remoteVars, syncVars, migrations, lastWrite>>

\* clearPassword(): the password and the key cache are dropped
ClearPassword(d) ==
    /\ password' = [password EXCEPT ![d] = NoPassword]
    /\ keyCache' = [keyCache EXCEPT ![d] = {}]
    /\ UNCHANGED <<clock, db, timestamps, authUser, supabase, syncProvider, returned, remoteVars, syncVars, migrations, lastWrite>>

\* setupPassword(password): the sentinel is encrypted and put; the session
\* password is set once the put has resolved (putOk)
setupPassword(store, pw, salt, iv, putOk) ==
    IF putOk
    THEN [store EXCEPT !.db[PASSWORD_CHECK_KEY] = encrypt(PASSWORD_CHECK_VALUE, pw, salt, iv),
                       !.password = pw]
    ELSE store
SetupPassword(d, pw, salt, iv, putOk) ==
    /\ LET after == setupPassword(StoreOf(d), pw, salt, iv, putOk) IN
         /\ db' = [db EXCEPT ![d] = after.db]
         /\ password' = [password EXCEPT ![d] = after.password]
         /\ returned' = [returned EXCEPT ![d] =
                Answer(d, "setupPassword", PASSWORD_CHECK_KEY, pw, ~putOk, Null, FALSE)]
    /\ keyCache' = [keyCache EXCEPT ![d] = EncryptCached(@, pw, salt)]
    /\ migrations' = [migrations EXCEPT ![d] = << >>]
    /\ UNCHANGED <<clock, timestamps, authUser, supabase, syncProvider, remoteVars, syncVars, lastWrite>>

\* resetAllData(): the sentinel and the encrypted keys are deleted one after
\* another, then clearPassword(); failAt > 0 is the delete that rejected
KeysToDelete == <<PASSWORD_CHECK_KEY>> \o ENCRYPTED_KEYS
\* (a variant that returns without the clearPassword() of line 256)
resetAllDataKeepsSession(store, failAt) ==
    LET last == IF failAt = 0 THEN Len(KeysToDelete) ELSE failAt - 1
        gone == {KeysToDelete[i] : i \in 1..last}
    IN  [store EXCEPT !.db = [k \in DbKeys |-> IF k \in gone THEN Null ELSE store.db[k]]]
resetAllData(store, failAt) ==
    LET last == IF failAt = 0 THEN Len(KeysToDelete) ELSE failAt - 1
        gone == {KeysToDelete[i] : i \in 1..last}
    IN  [store EXCEPT !.db = [k \in DbKeys |-> IF k \in gone THEN Null ELSE store.db[k]],
                      !.password = IF failAt = 0 THEN NoPassword ELSE store.password]
ResetAllData(d, failAt) ==
    /\ LET after == resetAllData(StoreOf(d), failAt) IN
         /\ db' = [db EXCEPT ![d] = after.db]
         /\ password' = [password EXCEPT ![d] = after.password]
         /\ returned' = [returned EXCEPT ![d] =
                Answer(d, "resetAllData", "none", "none", failAt # 0, Null, FALSE)]
    /\ keyCache' = IF failAt = 0 THEN [keyCache EXCEPT ![d] = {}] ELSE keyCache
    /\ migrations' = [migrations EXCEPT ![d] = << >>]
    /\ UNCHANGED <<clock, timestamps, authUser, supabase, syncProvider, remoteVars, syncVars, lastWrite>>

(* ------------------------------ remote tables ------------------------- *)
Row(uid, key, data, ts) ==
    [user_id |-> uid, data_type |-> key, encrypted_data |-> data, updated_at |-> ts]

\* .eq('user_id', uid)
RowsOf(uid) == {r \in user_data : r.user_id = uid}
HasRow(uid, key) == \E r \in RowsOf(uid) : r.data_type = key
TheRow(uid, key) == CHOOSE r \in RowsOf(uid) : r.data_type = key

\* .upsert(row, {onConflict: 'user_id,data_type'})
Upsert(rows, row) ==
    {r \in rows : ~(r.user_id = row.user_id /\ r.data_type = row.data_type)}
        \cup {row}

\* the rows of a result set as a list (in the order of SYNCABLE_KEYS)
RECURSIVE RowList(_, _)
RowList(rows, i) ==
    IF i > Len(SYNCABLE_KEYS) THEN << >>
    ELSE LET hit == {r \in rows : r.data_type = SYNCABLE_KEYS[i]}
         IN  (IF hit = {} THEN << >> ELSE <<CHOOSE r \in hit : TRUE>>)
                 \o RowList(rows, i + 1)

BackupsOf(uid) == {b \in user_data_backups : b.user_id = uid}

(* ------------------------------ SyncService --------------------------- *)
Err(key, message) == <<key, message>>
EmptyResult ==
    [success |-> TRUE, uploaded |-> << >>, downloaded |-> << >>, errors |-> << >>]
Failure(message) ==
    [success |-> FALSE, uploaded |-> << >>, downloaded |-> << >>,
     errors |-> <<Err("", message)>>]

NoSnapshot == [timestamps |-> EmptyLedger, rows |-> {}, db |-> EmptyDb]

\* a settled promise slot
IdleCall ==
    [op |-> "idle", pc |-> "idle", userId |-> NoUser,
     cloudTimestamps |-> EmptyLedger, localTimestamps |-> EmptyLedger,
     i |-> 0, req |-> {}, items |-> << >>, toDelete |-> {}, backupId |-> 0,
     backupCreated |-> "none", result |-> EmptyResult, inner |-> EmptyResult,
     copy |-> "none",
     \* the boolean or the list a call resolves with, whether it rejected
     \* (threw), and the handler that awaits it
     answer |-> "none", list |-> << >>, threw |-> FALSE, caller |-> "none",
     \* a storage call: its key, the value and the timestamp it puts, the
     \* ledger it read; history: the clock and the ledger entry at its start
     key |-> "none", data |-> Null, stamp |-> NoTs, ledger |-> EmptyLedger,
     at |-> NoTs, prev |-> NoTs,
     \* history: the state the call started in, the bulk operations that
     \* were running then, and what the call did
     pre |-> NoSnapshot, overlapped |-> {}, busy |-> {}, accessed |-> FALSE,
     wrote |-> FALSE, failed |-> {}, failedStore |-> {}]

Snapshot(d) ==
    [timestamps |-> timestamps[d], rows |-> RowsOf(authUser[d]), db |-> db[d]]

Pending(d) == {s \in Slots : calls[d][s].op # "idle"}
AllIdle == \A d \in Devices : Pending(d) = {}
\* the bulk operations of d whose promise is still pending
BulkOps == {"syncAll", "uploadAll", "downloadAll"}
Running(d) == {s \in Slots : calls[d][s].op \in BulkOps /\ calls[d][s].pc # "returned"}
RunningOps(d) == {calls[d][s].op : s \in Running(d)}
\* those of them that have sent their first request for remote data
BusyOps(d) == {calls[d][s].op : s \in {t \in Running(d) : calls[d][t].accessed}}

\* the rejected or failed call: its promise resolves with the result
Returned(c, result) == [c EXCEPT !.pc = "returned", !.result = result, !.req = {}]

\* (a variant that compares with >= : equal timestamps upload)
DecideNotStrict(localTs, cloudTs) ==
    IF localTs = NoTs /\ cloudTs = NoTs THEN "skip"
    ELSE IF localTs # NoTs /\ (cloudTs = NoTs \/ localTs >= cloudTs) THEN "upload"
    ELSE IF cloudTs # NoTs /\ (localTs = NoTs \/ cloudTs > localTs) THEN "download"
    ELSE "equal"

\* the comparison of one key in the loop of syncAll
Decide(localTs, cloudTs) ==
    IF localTs = NoTs /\ cloudTs = NoTs THEN "skip"
    ELSE IF localTs # NoTs /\ (cloudTs = NoTs \/ localTs > cloudTs) THEN "upload"
    ELSE IF cloudTs # NoTs /\ (localTs = NoTs \/ cloudTs > localTs) THEN "download"
    ELSE "equal"

\* a faulty return: success is not computed from the errors
FinishSuccess(c) ==
    [c EXCEPT !.pc = "returned", !.req = {}, !.result.success = TRUE]

\* result.success = result.errors.length === 0; return result
Finish(c) ==
    [c EXCEPT !.pc = "returned", !.req = {},
              !.result.success = (c.result.errors = << >>)]

\* the loop heads: run to the next await of the call, or to its return
RECURSIVE SyncAllLoop(_)
SyncAllLoop(c) ==
    IF c.i > Len(SYNCABLE_KEYS) THEN Finish(c)
    ELSE LET key == SYNCABLE_KEYS[c.i]
             todo == Decide(c.localTimestamps[key], c.cloudTimestamps[key])
         IN  IF todo = "upload" THEN [c EXCEPT !.pc = "getRawItem"]
             ELSE IF todo = "download" THEN [c EXCEPT !.pc = "select", !.accessed = TRUE]
             ELSE SyncAllLoop([c EXCEPT !.i = @ + 1])

UploadAllLoop(c) ==
    IF c.i > Len(SYNCABLE_KEYS) THEN Finish(c)
    ELSE [c EXCEPT !.pc = "uploadAllGet"]

NextKey(c) ==
    LET n == [c EXCEPT !.i = @ + 1, !.req = {}] IN
    IF c.op = "syncAll" THEN SyncAllLoop(n) ELSE UploadAllLoop(n)

Pushed(c, list, key) ==
    IF list = "uploaded"
    THEN [c EXCEPT !.result.uploaded = Append(@, key)]
    ELSE [c EXCEPT !.result.downloaded = Append(@, key)]
Caught(c, key, message) ==
    [c EXCEPT !.result.errors = Append(@, Err(key, message))]

\* (a variant whose finally block leaves the latch as it is)
LatchKept(d, c) == isSyncing

\* finally { this.isSyncing = false } of syncAll
Latch(d, c) ==
    IF c.op = "syncAll" /\ c.pc = "returned"
    THEN [isSyncing EXCEPT ![d] = FALSE]
    ELSE isSyncing

At(d, s, op, pc) == calls[d][s].op \in op /\ calls[d][s].pc = pc

\* the frame of a call of op that starts on d now
Frame(d, op) ==
    [IdleCall EXCEPT !.op = op, !.pre = Snapshot(d),
                     !.overlapped = RunningOps(d), !.busy = BusyOps(d)]
NotConfigured == Failure("Supabase not configured")

\* syncAll() up to its first await
SyncAllStart(d) ==
    LET c == Frame(d, "syncAll") IN
    IF isSyncing[d] THEN Returned(c, Failure("Sync already in progress"))
    ELSE IF ~supabase THEN Returned(c, NotConfigured)
    ELSE [c EXCEPT !.pc = "getUser"]
SyncAllCall(d, s) ==
    /\ calls[d][s].op = "idle"
    /\ calls' = [calls EXCEPT ![d][s] = SyncAllStart(d)]
    /\ UNCHANGED <<clock, storeVars, authUser, supabase, syncProvider, keyCache, returned, remoteVars, isSyncing, migrations, lastWrite>>

\* syncAll: getUserId() resolved; the latch is set and the select is sent
SyncAllGetUser(d, s) ==
    /\ At(d, s, {"syncAll"}, "getUser")
    /\ LET c == calls[d][s] IN
       IF authUser[d] = NoUser
       THEN /\ calls' = [calls EXCEPT ![d][s] = Returned(c, Failure("Not authenticated"))]
            /\ UNCHANGED isSyncing
       ELSE /\ calls' = [calls EXCEPT ![d][s] =
                            [c EXCEPT !.userId = authUser[d], !.pc = "fetch",
                                      !.accessed = TRUE]]
            /\ isSyncing' = [isSyncing EXCEPT ![d] = TRUE]
    /\ UNCHANGED <<clock, storeVars, authUser, supabase, syncProvider, keyCache, returned, remoteVars, migrations, lastWrite>>

\* syncAll: the select of (data_type, updated_at) answered
SyncAllFetch(d, s, ok) ==
    /\ At(d, s, {"syncAll"}, "fetch")
    /\ LET c == calls[d][s]
           n == IF ok
                THEN [c EXCEPT !.pc = "getTimestamps",
                               !.cloudTimestamps =
                                   [k \in SyncableSet |->
                                       IF HasRow(c.userId, k)
                                       THEN TheRow(c.userId, k).updated_at
                                       ELSE NoTs]]
                ELSE Returned(c, [c.result EXCEPT
                                     !.errors = Append(@, Err("", "Failed to fetch cloud data")),
                                     !.success = FALSE])
       IN  /\ calls' = [calls EXCEPT ![d][s] = n]
           /\ isSyncing' = Latch(d, n)
    /\ UNCHANGED <<clock, storeVars, authUser, supabase, syncProvider, keyCache, returned, remoteVars, migrations, lastWrite>>

\* syncAll: storage.getTimestamps() resolved; the loop runs to its first await
SyncAllGetTimestamps(d, s) ==
    /\ At(d, s, {"syncAll"}, "getTimestamps")
    /\ LET n == SyncAllLoop([calls[d][s] EXCEPT !.localTimestamps = timestamps[d],
                                                !.i = 1])
       IN  /\ calls' = [calls EXCEPT ![d][s] = n]
           /\ isSyncing' = Latch(d, n)
    /\ UNCHANGED <<clock, storeVars, authUser, supabase, syncProvider, keyCache, returned, remoteVars, migrations, lastWrite>>

\* a faulty upload: the row is filed under the key of the password sentinel
UploadRowAsSentinel(uid, key, data, now) == Row(uid, PASSWORD_CHECK_KEY, data, now)

\* the row uploadDataType sends: the raw value, stamped with the time of the upload
UploadRow(uid, key, data, now) == Row(uid, key, data, now)

\* uploadDataType: storage.getRawItem(key) resolved; nothing to upload, or
\* the upsert is sent
UploadGetRawItem(d, s) ==
    /\ At(d, s, {"syncAll", "uploadAll"}, "getRawItem")
    /\ LET c == calls[d][s]
           key == SYNCABLE_KEYS[c.i]
           data == db[d][key]
           n == IF Falsy(data)
                THEN NextKey(Pushed(c, "uploaded", key))
                ELSE [c EXCEPT !.pc = "upsert", !.accessed = TRUE,
                               !.req = {UploadRow(c.userId, key, data, clock)}]
       IN  /\ calls' = [calls EXCEPT ![d][s] = n]
           /\ isSyncing' = Latch(d, n)
    /\ UNCHANGED <<clock, storeVars, authUser, supabase, syncProvider, keyCache, returned, remoteVars, migrations, lastWrite>>

\* uploadDataType: the upsert answered
UploadUpsert(d, s, ok) ==
    /\ At(d, s, {"syncAll", "uploadAll"}, "upsert")
    /\ LET c == calls[d][s]
           key == SYNCABLE_KEYS[c.i]
           row == CHOOSE r \in c.req : TRUE
           n == IF ok
                THEN NextKey(Pushed(c, "uploaded", key))
                ELSE NextKey([Caught(c, key, "Failed to upload")
                                 EXCEPT !.failed = @ \cup {key}])
       IN  /\ calls' = [calls EXCEPT ![d][s] = n]
           /\ isSyncing' = Latch(d, n)
           /\ user_data' = IF ok THEN Upsert(user_data, row) ELSE user_data
    /\ UNCHANGED <<clock, storeVars, authUser, supabase, syncProvider, keyCache, returned, user_data_backups, nextBackupId, migrations, lastWrite>>

\* downloadDataType: the select of the row answered (error, no row, or the
\* row, which setRawItemWithTimestamp then stores)
DownloadSelect(d, s, ok, outcome) ==
    /\ At(d, s, {"syncAll"}, "select")
    /\ LET c == calls[d][s]
           key == SYNCABLE_KEYS[c.i]
           found == HasRow(c.userId, key)
           row == TheRow(c.userId, key)
           stored == setRawItemWithTimestamp(
                         [db |-> db[d], timestamps |-> timestamps[d]],
                         key, row.encrypted_data, row.updated_at, outcome)
           n == IF ~ok
                THEN NextKey([Caught(c, key, "Failed to download")
                                 EXCEPT !.failed = @ \cup {key}])
                ELSE IF ~found THEN NextKey(Pushed(c, "downloaded", key))
                ELSE IF outcome = "ok"
                THEN NextKey([Pushed(c, "downloaded", key) EXCEPT !.wrote = TRUE])
                ELSE NextKey([Caught(c, key, "storage")
                                 EXCEPT !.wrote = (outcome # "putFails"),
                                        !.failedStore = @ \cup {key}])
       IN  /\ (~ok \/ ~found) => outcome = "ok"
           /\ calls' = [calls EXCEPT ![d][s] = n]
           /\ isSyncing' = Latch(d, n)
           /\ db' = IF ok /\ found THEN [db EXCEPT ![d] = stored.db] ELSE db
           /\ timestamps' = IF ok /\ found
                            THEN [timestamps EXCEPT ![d] = stored.timestamps]
                            ELSE timestamps
           /\ migrations' = IF ok /\ found
                            THEN [migrations EXCEPT ![d] = << >>]
                            ELSE migrations
    /\ UNCHANGED <<clock, password, authUser, supabase, syncProvider, keyCache, returned, remoteVars, lastWrite>>

(* --- createBackup / deleteOldBackups --- *)
\* backupData: data_type -> {encrypted_data, updated_at} of the rows read
BackupData(rows) ==
    {[data_type |-> r.data_type, encrypted_data |-> r.encrypted_data,
      updated_at |-> r.updated_at] : r \in rows}

\* the inserted row; id and created_at are given by the database, which
\* inserts the rows of one user one after another
BackupRow(id, uid, data) ==
    [id |-> id, user_id |-> uid, created_at |-> id, backup_data |-> data]

\* backups.slice(3).map(b => b.id) of the list ordered by created_at, descending
OldBackups(list) ==
    {b.id : b \in {x \in list :
                      Cardinality({y \in list : y.created_at > x.created_at})
                          >= KEEP_BACKUPS}}

BoolStr(b) == IF b THEN "true" ELSE "false"

\* createBackup returned value: to its caller, or into uploadAll, whose loop
\* then runs to its first await
BackupDone(c, value) ==
    IF c.op = "createBackup"
    THEN [c EXCEPT !.pc = "returned", !.req = {}, !.backupCreated = BoolStr(value)]
    ELSE UploadAllLoop([c EXCEPT !.backupCreated = BoolStr(value), !.i = 1, !.req = {}])

\* createBackup() up to its first await
CreateBackupStart(d) ==
    LET c == Frame(d, "createBackup") IN
    IF ~supabase THEN BackupDone(c, FALSE) ELSE [c EXCEPT !.pc = "backupGetUser"]
CreateBackupCall(d, s) ==
    /\ calls[d][s].op = "idle"
    /\ calls' = [calls EXCEPT ![d][s] = CreateBackupStart(d)]
    /\ UNCHANGED <<clock, storeVars, authUser, supabase, syncProvider, keyCache, returned, remoteVars, isSyncing, migrations, lastWrite>>

\* createBackup: getUserId() resolved; the select of the rows is sent
BackupGetUser(d, s) ==
    /\ At(d, s, {"createBackup", "uploadAll"}, "backupGetUser")
    /\ LET c == calls[d][s] IN
       calls' = [calls EXCEPT ![d][s] =
                    IF authUser[d] = NoUser
                    THEN BackupDone(c, FALSE)
                    ELSE [c EXCEPT !.pc = "backupFetch", !.userId = authUser[d],
                                   !.accessed = TRUE]]
    /\ UNCHANGED <<clock, storeVars, authUser, supabase, syncProvider, keyCache, returned, remoteVars, isSyncing, migrations, lastWrite>>

\* createBackup: the select answered; without rows there is nothing to back up
BackupFetch(d, s, ok) ==
    /\ At(d, s, {"createBackup", "uploadAll"}, "backupFetch")
    /\ LET c == calls[d][s]
           rows == RowsOf(c.userId)
       IN  calls' = [calls EXCEPT ![d][s] =
                        IF ~ok THEN BackupDone(c, FALSE)
                        ELSE IF rows = {} THEN BackupDone(c, TRUE)
                        ELSE [c EXCEPT !.pc = "backupInsert",
                                       !.req = {BackupData(rows)}]]
    /\ UNCHANGED <<clock, storeVars, authUser, supabase, syncProvider, keyCache, returned, remoteVars, isSyncing, migrations, lastWrite>>

\* createBackup: the insert answered
BackupInsert(d, s, ok) ==
    /\ At(d, s, {"createBackup", "uploadAll"}, "backupInsert")
    /\ ok => nextBackupId <= MaxBackupId
    /\ LET c == calls[d][s]
           data == CHOOSE x \in c.req : TRUE
       IN  /\ calls' = [calls EXCEPT ![d][s] =
                           IF ok THEN [c EXCEPT !.pc = "pruneSelect", !.req = {}]
                           ELSE BackupDone(c, FALSE)]
           /\ user_data_backups' =
                  IF ok
                  THEN user_data_backups \cup {BackupRow(nextBackupId, c.userId, data)}
                  ELSE user_data_backups
           /\ nextBackupId' = IF ok THEN nextBackupId + 1 ELSE nextBackupId
    /\ UNCHANGED <<clock, storeVars, authUser, supabase, syncProvider, keyCache, returned, user_data, isSyncing, migrations, lastWrite>>

\* deleteOldBackups: the ordered select answered; on an error it returns
PruneSelect(d, s, ok) ==
    /\ At(d, s, {"createBackup", "uploadAll"}, "pruneSelect")
    /\ LET c == calls[d][s]
           backups == BackupsOf(c.userId)
       IN  calls' = [calls EXCEPT ![d][s] =
                        IF ok /\ Cardinality(backups) > KEEP_BACKUPS
                        THEN [c EXCEPT !.pc = "pruneDelete",
                                       !.toDelete = OldBackups(backups)]
                        ELSE BackupDone(c, TRUE)]
    /\ UNCHANGED <<clock, storeVars, authUser, supabase, syncProvider, keyCache, returned, remoteVars, isSyncing, migrations, lastWrite>>

\* deleteOldBackups: the delete answered; its result is not looked at
PruneDelete(d, s, ok) ==
    /\ At(d, s, {"createBackup", "uploadAll"}, "pruneDelete")
    /\ LET c == calls[d][s] IN
       /\ calls' = [calls EXCEPT ![d][s] = BackupDone([c EXCEPT !.toDelete = {}], TRUE)]
       /\ user_data_backups' =
              IF ok THEN {b \in user_data_backups : b.id \notin c.toDelete}
              ELSE user_data_backups
    /\ UNCHANGED <<clock, storeVars, authUser, supabase, syncProvider, keyCache, returned, user_data, nextBackupId, isSyncing, migrations, lastWrite>>

(* --- uploadAll --- *)
\* the two copies of SyncService in the repository: src/unnamed/part_004
\* (uploadAll calls createBackup) and src/lib/services/syncService.ts (it
\* does not)
Copies == {"part_004", "lib"}

\* uploadAll() up to its first await; isSyncing is neither read nor set
UploadAllStart(d, copy) ==
    LET c == [Frame(d, "uploadAll") EXCEPT !.copy = copy] IN
    IF ~supabase THEN Returned(c, NotConfigured) ELSE [c EXCEPT !.pc = "getUser"]
UploadAllCall(d, s, copy) ==
    /\ calls[d][s].op = "idle"
    /\ calls' = [calls EXCEPT ![d][s] = UploadAllStart(d, copy)]
    /\ UNCHANGED <<clock, storeVars, authUser, supabase, syncProvider, keyCache, returned, remoteVars, isSyncing, migrations, lastWrite>>

\* uploadAll: getUserId() resolved; createBackup() is called, or (in the copy
\* without it) the loop starts
UploadAllGetUser(d, s) ==
    /\ At(d, s, {"uploadAll"}, "getUser")
    /\ LET c == calls[d][s] IN
       calls' = [calls EXCEPT ![d][s] =
                    IF authUser[d] = NoUser
                    THEN Returned(c, Failure("Not authenticated"))
                    ELSE IF c.copy = "part_004"
                    THEN [c EXCEPT !.userId = authUser[d], !.pc = "backupGetUser"]
                    ELSE UploadAllLoop([c EXCEPT !.userId = authUser[d], !.i = 1])]
    /\ UNCHANGED <<clock, storeVars, authUser, supabase, syncProvider, keyCache, returned, remoteVars, isSyncing, migrations, lastWrite>>

\* (a variant that, like syncAll, passes over a key whose remote row is newer
\* than the ledger entry)
UploadAllGetIfNewer(d, s) ==
    /\ At(d, s, {"uploadAll"}, "uploadAllGet")
    /\ LET c == calls[d][s]
           key == SYNCABLE_KEYS[c.i]
           data == db[d][key]
           newer == HasRow(c.userId, key)
                    /\ TheRow(c.userId, key).updated_at > timestamps[d][key]
       IN  calls' = [calls EXCEPT ![d][s] =
                        IF Falsy(data) \/ newer THEN NextKey(c)
                        ELSE [c EXCEPT !.pc = "getRawItem"]]
    /\ UNCHANGED <<clock, storeVars, authUser, supabase, syncProvider, keyCache, returned, remoteVars, isSyncing, migrations, lastWrite>>

\* uploadAll: storage.getRawItem(key) resolved; a key without data is passed
\* over, for the others uploadDataType is called
UploadAllGet(d, s) ==
    /\ At(d, s, {"uploadAll"}, "uploadAllGet")
    /\ LET c == calls[d][s]
           data == db[d][SYNCABLE_KEYS[c.i]]
       IN  calls' = [calls EXCEPT ![d][s] =
                        IF Falsy(data) THEN NextKey(c)
                        ELSE [c EXCEPT !.pc = "getRawItem"]]
    /\ UNCHANGED <<clock, storeVars, authUser, supabase, syncProvider, keyCache, returned, remoteVars, isSyncing, migrations, lastWrite>>

(* --- downloadAll --- *)
\* downloadAll returned result: to its caller, or into restoreBackup, which
\* takes over the downloaded list, appends the errors and sets success
DownloadDone(c, result) ==
    IF c.op = "downloadAll"
    THEN Returned(c, result)
    ELSE LET errors == c.result.errors \o result.errors
         IN  Returned(c, [c.result EXCEPT !.downloaded = result.downloaded,
                                          !.errors = errors,
                                          !.success = (errors = << >>)])

\* the loop of downloadAll: to the next await, or to the return
DownloadAllLoop(c) ==
    IF c.i > Len(c.items)
    THEN DownloadDone(c, [c.inner EXCEPT !.success = (c.inner.errors = << >>)])
    ELSE [c EXCEPT !.pc = "dlStore"]

\* downloadAll() up to its first await; isSyncing is neither read nor set
DownloadAllStart(d) ==
    LET c == Frame(d, "downloadAll") IN
    IF ~supabase THEN Returned(c, NotConfigured) ELSE [c EXCEPT !.pc = "dlGetUser"]
DownloadAllCall(d, s) ==
    /\ calls[d][s].op = "idle"
    /\ calls' = [calls EXCEPT ![d][s] = DownloadAllStart(d)]
    /\ UNCHANGED <<clock, storeVars, authUser, supabase, syncProvider, keyCache, returned, remoteVars, isSyncing, migrations, lastWrite>>

\* downloadAll: getUserId() resolved; the select of the rows is sent
DownloadAllGetUser(d, s) ==
    /\ At(d, s, {"downloadAll", "restoreBackup"}, "dlGetUser")
    /\ LET c == calls[d][s] IN
       calls' = [calls EXCEPT ![d][s] =
                    IF authUser[d] = NoUser
                    THEN DownloadDone(c, Failure("Not authenticated"))
                    ELSE [c EXCEPT !.userId = authUser[d], !.pc = "dlFetch",
                                   !.accessed = TRUE]]
    /\ UNCHANGED <<clock, storeVars, authUser, supabase, syncProvider, keyCache, returned, remoteVars, isSyncing, migrations, lastWrite>>

\* downloadAll: the select answered
DownloadAllFetch(d, s, ok) ==
    /\ At(d, s, {"downloadAll", "restoreBackup"}, "dlFetch")
    /\ LET c == calls[d][s] IN
       calls' = [calls EXCEPT ![d][s] =
                    IF ok
                    THEN DownloadAllLoop([c EXCEPT !.items = RowList(RowsOf(c.userId), 1),
                                                   !.i = 1, !.inner = EmptyResult])
                    ELSE DownloadDone([c EXCEPT !.failed = @ \cup {"user_data"}],
                                      Failure("select"))]
    /\ UNCHANGED <<clock, storeVars, authUser, supabase, syncProvider, keyCache, returned, remoteVars, isSyncing, migrations, lastWrite>>

\* downloadAll: setRawItemWithTimestamp of one row settled
DownloadAllStore(d, s, outcome) ==
    /\ At(d, s, {"downloadAll", "restoreBackup"}, "dlStore")
    /\ LET c == calls[d][s]
           item == c.items[c.i]
           key == item.data_type
           stored == setRawItemWithTimestamp(
                         [db |-> db[d], timestamps |-> timestamps[d]],
                         key, item.encrypted_data, item.updated_at, outcome)
           n == IF outcome = "ok"
                THEN [c EXCEPT !.inner.downloaded = Append(@, key),
                               !.i = @ + 1, !.wrote = TRUE]
                ELSE [c EXCEPT !.inner.errors = Append(@, Err(key, "storage")),
                               !.i = @ + 1, !.wrote = @ \/ (outcome # "putFails"),
                               !.failedStore = @ \cup {key}]
       IN  /\ calls' = [calls EXCEPT ![d][s] = DownloadAllLoop(n)]
           /\ db' = [db EXCEPT ![d] = stored.db]
           /\ timestamps' = [timestamps EXCEPT ![d] = stored.timestamps]
           /\ migrations' = [migrations EXCEPT ![d] = << >>]
    /\ UNCHANGED <<clock, password, authUser, supabase, syncProvider, keyCache, returned, remoteVars, isSyncing, lastWrite>>

(* --- restoreBackup --- *)
\* a faulty restore row: stamped with the time of the restore
RestoreRowStampedNow(uid, item) ==
    Row(uid, item.data_type, item.encrypted_data, clock)

\* the row restoreBackup upserts for one entry of the snapshot
RestoreRow(uid, item) ==
    Row(uid, item.data_type, item.encrypted_data, item.updated_at)

\* the loop over the entries of the snapshot: to the next upsert, or to the
\* call of downloadAll
RestoreLoop(c) ==
    IF c.i > Len(c.items)
    THEN [c EXCEPT !.pc = "dlGetUser", !.req = {}]
    ELSE [c EXCEPT !.pc = "rsUpsert", !.req = {RestoreRow(c.userId, c.items[c.i])}]

\* restoreBackup(backupId) up to its first await
RestoreBackupStart(d, backupId) ==
    LET c == [Frame(d, "restoreBackup") EXCEPT !.backupId = backupId] IN
    IF ~supabase THEN Returned(c, NotConfigured) ELSE [c EXCEPT !.pc = "rsGetUser"]
RestoreBackupCall(d, s, backupId) ==
    /\ calls[d][s].op = "idle"
    /\ calls' = [calls EXCEPT ![d][s] = RestoreBackupStart(d, backupId)]
    /\ UNCHANGED <<clock, storeVars, authUser, supabase, syncProvider, keyCache, returned, remoteVars, isSyncing, migrations, lastWrite>>

\* restoreBackup: getUserId() resolved; the select of the backup is sent
RestoreGetUser(d, s) ==
    /\ At(d, s, {"restoreBackup"}, "rsGetUser")
    /\ LET c == calls[d][s] IN
       calls' = [calls EXCEPT ![d][s] =
                    IF authUser[d] = NoUser
                    THEN Returned(c, Failure("Not authenticated"))
                    ELSE [c EXCEPT !.userId = authUser[d], !.pc = "rsFetch",
                                   !.accessed = TRUE]]
    /\ UNCHANGED <<clock, storeVars, authUser, supabase, syncProvider, keyCache, returned, remoteVars, isSyncing, migrations, lastWrite>>

\* restoreBackup: the select of the backup answered (.single(): an error
\* when there is no such row)
RestoreFetch(d, s, ok) ==
    /\ At(d, s, {"restoreBackup"}, "rsFetch")
    /\ LET c == calls[d][s]
           hit == {b \in BackupsOf(c.userId) : b.id = c.backupId}
       IN  calls' = [calls EXCEPT ![d][s] =
                        IF ok /\ hit # {}
                        THEN RestoreLoop([c EXCEPT
                                 !.items = RowList((CHOOSE b \in hit : TRUE).backup_data, 1),
                                 !.i = 1])
                        ELSE Returned(c, Failure("Backup nicht gefunden"))]
    /\ UNCHANGED <<clock, storeVars, authUser, supabase, syncProvider, keyCache, returned, remoteVars, isSyncing, migrations, lastWrite>>

\* restoreBackup: the upsert of one entry answered
RestoreUpsert(d, s, ok) ==
    /\ At(d, s, {"restoreBackup"}, "rsUpsert")
    /\ LET c == calls[d][s]
           key == c.items[c.i].data_type
           row == CHOOSE r \in c.req : TRUE
           n == IF ok
                THEN [c EXCEPT !.result.uploaded = Append(@, key), !.i = @ + 1]
                ELSE [c EXCEPT !.result.errors = Append(@, Err(key, "upsert")),
                               !.i = @ + 1, !.failed = @ \cup {key}]
       IN  /\ calls' = [calls EXCEPT ![d][s] = RestoreLoop(n)]
           /\ user_data' = IF ok THEN Upsert(user_data, row) ELSE user_data
    /\ UNCHANGED <<clock, storeVars, authUser, supabase, syncProvider, keyCache, returned, user_data_backups, nextBackupId,
                   isSyncing, migrations, lastWrite>>

\* the caller takes the settled result; the slot is free again
Return(d, s) ==
    /\ calls[d][s].pc = "returned"
    /\ calls' = [calls EXCEPT ![d][s] = IdleCall]
    /\ UNCHANGED <<clock, storeVars, authUser, supabase, syncProvider, keyCache, returned, remoteVars, isSyncing, migrations, lastWrite>>

\* time passes
Tick ==
    /\ clock < MaxTime
    /\ clock' = clock + 1
    /\ UNCHANGED <<storeVars, authUser, supabase, syncProvider, keyCache, returned, remoteVars, syncVars, migrations, lastWrite>>

(* --- setItem and setRawItemWithTimestamp, request by request --- *)
\* setItem(key, value) up to its first request: the value is encrypted and
\* the put is sent (an encrypted key without a password throws at once)
SetItemCall(d, s, key, value, salt, iv) ==
    /\ calls[d][s].op = "idle"
    /\ shouldEncrypt(key) => password[d] # NoPassword
    /\ calls' = [calls EXCEPT ![d][s] =
           [IdleCall EXCEPT !.op = "setItem", !.pc = "put", !.key = key,
                            !.data = IF shouldEncrypt(key)
                                     THEN encrypt(value, password[d], salt, iv)
                                     ELSE value,
                            !.at = clock, !.prev = timestamps[d][key]]]
    /\ keyCache' = IF shouldEncrypt(key)
                   THEN [keyCache EXCEPT ![d] = EncryptCached(@, password[d], salt)]
                   ELSE keyCache
    /\ UNCHANGED <<clock, storeVars, authUser, supabase, syncProvider, returned, remoteVars, isSyncing, migrations, lastWrite>>

\* setRawItemWithTimestamp(key, value, timestamp) up to its first request
SetRawItemWithTimestampCall(d, s, key, value, timestamp) ==
    /\ calls[d][s].op = "idle"
    /\ calls' = [calls EXCEPT ![d][s] =
           [IdleCall EXCEPT !.op = "setRawItemWithTimestamp", !.pc = "put",
                            !.key = key, !.data = value, !.stamp = timestamp,
                            !.at = clock, !.prev = timestamps[d][key]]]
    /\ UNCHANGED <<clock, storeVars, authUser, supabase, syncProvider, keyCache, returned, remoteVars, isSyncing, migrations, lastWrite>>

\* the call rejects
Thrown(c) == [c EXCEPT !.pc = "returned", !.threw = TRUE]

\* db.put(STORE_NAME, value, key) answered; setItem goes on to
\* updateTimestamp for a syncable key only
StoragePut(d, s, ok) ==
    /\ At(d, s, {"setItem", "setRawItemWithTimestamp"}, "put")
    /\ LET c == calls[d][s] IN
       /\ calls' = [calls EXCEPT ![d][s] =
              IF ~ok THEN Thrown(c)
              ELSE IF c.op = "setItem" /\ c.key \notin SyncableSet
              THEN [c EXCEPT !.pc = "returned"]
              ELSE [c EXCEPT !.pc = "getTimestamps"]]
       /\ db' = IF ok THEN [db EXCEPT ![d][c.key] = c.data] ELSE db
       /\ migrations' = IF ok THEN [migrations EXCEPT ![d] = << >>] ELSE migrations
    /\ UNCHANGED <<clock, timestamps, password, authUser, supabase, syncProvider, keyCache, returned, remoteVars, isSyncing, lastWrite>>

\* getTimestamps() resolved: the entry of the key is set in the map that was
\* read (to now, or to the timestamp given) and the put of the map is sent
StorageGetTimestamps(d, s) ==
    /\ At(d, s, {"setItem", "setRawItemWithTimestamp"}, "getTimestamps")
    /\ LET c == calls[d][s] IN
       calls' = [calls EXCEPT ![d][s] =
           [c EXCEPT !.pc = "putTimestamps",
                     !.ledger = IF c.op = "setItem"
                                THEN updateTimestamp(timestamps[d], c.key, clock)
                                ELSE [timestamps[d] EXCEPT ![c.key] = c.stamp]]]
    /\ UNCHANGED <<clock, storeVars, authUser, supabase, syncProvider, keyCache, returned, remoteVars, isSyncing, migrations, lastWrite>>

\* db.put(STORE_NAME, JSON.stringify(timestamps), TIMESTAMPS_KEY) answered
StoragePutTimestamps(d, s, ok) ==
    /\ At(d, s, {"setItem", "setRawItemWithTimestamp"}, "putTimestamps")
    /\ LET c == calls[d][s] IN
       /\ calls' = [calls EXCEPT ![d][s] =
              IF ok THEN [c EXCEPT !.pc = "returned"] ELSE Thrown(c)]
       /\ timestamps' = IF ok THEN [timestamps EXCEPT ![d] = c.ledger] ELSE timestamps
    /\ UNCHANGED <<clock, db, password, authUser, supabase, syncProvider, keyCache, returned, remoteVars, isSyncing, migrations, lastWrite>>

(* --- hasCloudData --- *)
\* a call that resolves with a boolean; signInWithCloud goes on to
\* downloadAll() when hasCloudData() resolved with true
Answered(d, c, value) ==
    IF c.op = "hasCloudData" /\ c.caller = "signInWithCloud" /\ value
    THEN [DownloadAllStart(d) EXCEPT !.caller = c.caller]
    ELSE [c EXCEPT !.pc = "returned", !.req = {}, !.answer = BoolStr(value)]

\* hasCloudData() up to its first await
HasCloudDataStart(d) ==
    LET c == Frame(d, "hasCloudData") IN
    IF ~supabase THEN Answered(d, c, FALSE) ELSE [c EXCEPT !.pc = "hcGetUser"]
HasCloudDataCall(d, s) ==
    /\ calls[d][s].op = "idle"
    /\ calls' = [calls EXCEPT ![d][s] = HasCloudDataStart(d)]
    /\ UNCHANGED <<clock, storeVars, authUser, supabase, syncProvider, keyCache, returned, remoteVars, isSyncing, migrations, lastWrite>>

\* hasCloudData: getUserId() resolved; the count is requested
HasCloudGetUser(d, s) ==
    /\ At(d, s, {"hasCloudData"}, "hcGetUser")
    /\ LET c == calls[d][s] IN
       calls' = [calls EXCEPT ![d][s] =
                    IF authUser[d] = NoUser
                    THEN Answered(d, c, FALSE)
                    ELSE [c EXCEPT !.userId = authUser[d], !.pc = "hcCount",
                                   !.accessed = TRUE]]
    /\ UNCHANGED <<clock, storeVars, authUser, supabase, syncProvider, keyCache, returned, remoteVars, isSyncing, migrations, lastWrite>>

\* hasCloudData: the count answered
HasCloudCount(d, s, ok) ==
    /\ At(d, s, {"hasCloudData"}, "hcCount")
    /\ LET c == calls[d][s] IN
       calls' = [calls EXCEPT ![d][s] =
                    Answered(d, c, ok /\ Cardinality(RowsOf(c.userId)) > 0)]
    /\ UNCHANGED <<clock, storeVars, authUser, supabase, syncProvider, keyCache, returned, remoteVars, isSyncing, migrations, lastWrite>>

(* --- deleteAllCloudData --- *)
\* deleteAllCloudData() up to its first await
DeleteAllCloudDataStart(d) ==
    LET c == Frame(d, "deleteAllCloudData") IN
    IF ~supabase THEN Answered(d, c, FALSE) ELSE [c EXCEPT !.pc = "daGetUser"]
DeleteAllCloudDataCall(d, s) ==
    /\ calls[d][s].op = "idle"
    /\ calls' = [calls EXCEPT ![d][s] = DeleteAllCloudDataStart(d)]
    /\ UNCHANGED <<clock, storeVars, authUser, supabase, syncProvider, keyCache, returned, remoteVars, isSyncing, migrations, lastWrite>>

\* deleteAllCloudData: getUserId() resolved; the delete is sent
DeleteAllGetUser(d, s) ==
    /\ At(d, s, {"deleteAllCloudData"}, "daGetUser")
    /\ LET c == calls[d][s] IN
       calls' = [calls EXCEPT ![d][s] =
                    IF authUser[d] = NoUser
                    THEN Answered(d, c, FALSE)
                    ELSE [c EXCEPT !.userId = authUser[d], !.pc = "daDelete",
                                   !.accessed = TRUE]]
    /\ UNCHANGED <<clock, storeVars, authUser, supabase, syncProvider, keyCache, returned, remoteVars, isSyncing, migrations, lastWrite>>

\* deleteAllCloudData: the delete of the rows of the user answered
DeleteAllDelete(d, s, ok) ==
    /\ At(d, s, {"deleteAllCloudData"}, "daDelete")
    /\ LET c == calls[d][s] IN
       /\ calls' = [calls EXCEPT ![d][s] = Answered(d, c, ok)]
       /\ user_data' = IF ok THEN user_data \ RowsOf(c.userId) ELSE user_data
    /\ UNCHANGED <<clock, storeVars, authUser, supabase, syncProvider, keyCache, returned, user_data_backups, nextBackupId, isSyncing, migrations, lastWrite>>

(* --- getBackups --- *)
\* .order('created_at', {ascending: false}).limit(n) of (id, created_at)
RECURSIVE Newest(_, _)
Newest(backups, n) ==
    IF n = 0 \/ backups = {} THEN << >>
    ELSE LET top == CHOOSE b \in backups :
                        \A other \in backups : other.created_at <= b.created_at
         IN  <<[id |-> top.id, created_at |-> top.created_at]>>
                 \o Newest(backups \ {top}, n - 1)

BackupsListed(c, list) == [c EXCEPT !.pc = "returned", !.req = {}, !.list = list]

\* getBackups() up to its first await
GetBackupsStart(d) ==
    LET c == Frame(d, "getBackups") IN
    IF ~supabase THEN BackupsListed(c, << >>) ELSE [c EXCEPT !.pc = "gbGetUser"]
GetBackupsCall(d, s) ==
    /\ calls[d][s].op = "idle"
    /\ calls' = [calls EXCEPT ![d][s] = GetBackupsStart(d)]
    /\ UNCHANGED <<clock, storeVars, authUser, supabase, syncProvider, keyCache, returned, remoteVars, isSyncing, migrations, lastWrite>>

\* getBackups: getUserId() resolved; the select is sent
GetBackupsGetUser(d, s) ==
    /\ At(d, s, {"getBackups"}, "gbGetUser")
    /\ LET c == calls[d][s] IN
       calls' = [calls EXCEPT ![d][s] =
                    IF authUser[d] = NoUser
                    THEN BackupsListed(c, << >>)
                    ELSE [c EXCEPT !.userId = authUser[d], !.pc = "gbSelect",
                                   !.accessed = TRUE]]
    /\ UNCHANGED <<clock, storeVars, authUser, supabase, syncProvider, keyCache, returned, remoteVars, isSyncing, migrations, lastWrite>>

\* getBackups: the select answered
GetBackupsSelect(d, s, ok) ==
    /\ At(d, s, {"getBackups"}, "gbSelect")
    /\ LET c == calls[d][s] IN
       calls' = [calls EXCEPT ![d][s] =
                    BackupsListed(c, IF ok THEN Newest(BackupsOf(c.userId), KEEP_BACKUPS)
                                     ELSE << >>)]
    /\ UNCHANGED <<clock, storeVars, authUser, supabase, syncProvider, keyCache, returned, remoteVars, isSyncing, migrations, lastWrite>>

(* --- uploadDataType / downloadDataType called on their own --- *)
\* the call resolves (Promise<void>)
Resolved(c) == [c EXCEPT !.pc = "returned", !.req = {}]

\* uploadDataType(key) or downloadDataType(key), without a userId, up to
\* the first await: without a client the call throws
TransferStart(d, op, key) ==
    LET c == [Frame(d, op) EXCEPT !.key = key] IN
    IF ~supabase THEN Thrown(c) ELSE [c EXCEPT !.pc = "tGetUser"]
UploadDataTypeCall(d, s, key) ==
    /\ calls[d][s].op = "idle"
    /\ calls' = [calls EXCEPT ![d][s] = TransferStart(d, "uploadDataType", key)]
    /\ UNCHANGED <<clock, storeVars, authUser, supabase, syncProvider, keyCache, returned, remoteVars, isSyncing, migrations, lastWrite>>
DownloadDataTypeCall(d, s, key) ==
    /\ calls[d][s].op = "idle"
    /\ calls' = [calls EXCEPT ![d][s] = TransferStart(d, "downloadDataType", key)]
    /\ UNCHANGED <<clock, storeVars, authUser, supabase, syncProvider, keyCache, returned, remoteVars, isSyncing, migrations, lastWrite>>

\* getUserId() resolved: 'Not authenticated' is thrown, or uploadDataType
\* awaits storage.getRawItem and downloadDataType sends its select
TransferGetUser(d, s) ==
    /\ At(d, s, {"uploadDataType", "downloadDataType"}, "tGetUser")
    /\ LET c == calls[d][s] IN
       calls' = [calls EXCEPT ![d][s] =
           IF authUser[d] = NoUser THEN Thrown(c)
           ELSE [c EXCEPT !.userId = authUser[d], !.accessed = TRUE,
                          !.pc = IF c.op = "uploadDataType" THEN "tGetRawItem"
                                 ELSE "tSelect"]]
    /\ UNCHANGED <<clock, storeVars, authUser, supabase, syncProvider, keyCache, returned, remoteVars, isSyncing, migrations, lastWrite>>

\* uploadDataType: storage.getRawItem(key) resolved; nothing to upload, or
\* the upsert is sent
TransferGetRawItem(d, s) ==
    /\ At(d, s, {"uploadDataType"}, "tGetRawItem")
    /\ LET c == calls[d][s]
           data == db[d][c.key] IN
       calls' = [calls EXCEPT ![d][s] =
           IF Falsy(data) THEN Resolved(c)
           ELSE [c EXCEPT !.pc = "tUpsert",
                          !.req = {UploadRow(c.userId, c.key, data, clock)}]]
    /\ UNCHANGED <<clock, storeVars, authUser, supabase, syncProvider, keyCache, returned, remoteVars, isSyncing, migrations, lastWrite>>

\* uploadDataType: the upsert answered
TransferUpsert(d, s, ok) ==
    /\ At(d, s, {"uploadDataType"}, "tUpsert")
    /\ LET c == calls[d][s]
           row == CHOOSE r \in c.req : TRUE IN
       /\ calls' = [calls EXCEPT ![d][s] = IF ok THEN Resolved(c) ELSE Thrown(c)]
       /\ user_data' = IF ok THEN Upsert(user_data, row) ELSE user_data
    /\ UNCHANGED <<clock, storeVars, authUser, supabase, syncProvider, keyCache, returned, user_data_backups, nextBackupId, isSyncing, migrations, lastWrite>>

\* downloadDataType: the select of the row answered (error, no row, or the
\* row, which setRawItemWithTimestamp then stores)
TransferSelect(d, s, ok, outcome) ==
    /\ At(d, s, {"downloadDataType"}, "tSelect")
    /\ LET c == calls[d][s]
           found == HasRow(c.userId, c.key)
           row == TheRow(c.userId, c.key)
           stored == setRawItemWithTimestamp(
                         [db |-> db[d], timestamps |-> timestamps[d]],
                         c.key, row.encrypted_data, row.updated_at, outcome)
       IN  /\ (~ok \/ ~found) => outcome = "ok"
           /\ calls' = [calls EXCEPT ![d][s] =
                  IF ~ok THEN Thrown(c)
                  ELSE IF ~found THEN Resolved(c)
                  ELSE IF outcome = "ok" THEN [Resolved(c) EXCEPT !.wrote = TRUE]
                  ELSE [Thrown(c) EXCEPT !.wrote = (outcome # "putFails")]]
           /\ db' = IF ok /\ found THEN [db EXCEPT ![d] = stored.db] ELSE db
           /\ timestamps' = IF ok /\ found
                            THEN [timestamps EXCEPT ![d] = stored.timestamps]
                            ELSE timestamps
           /\ migrations' = IF ok /\ found
                            THEN [migrations EXCEPT ![d] = << >>]
                            ELSE migrations
    /\ UNCHANGED <<clock, password, authUser, supabase, syncProvider, keyCache, returned, remoteVars, isSyncing, lastWrite>>

(* --- the requests sent to the remote tables --- *)
\* the positions at which a call awaits the answer to a remote request
RemotePcs ==
    {"fetch", "select", "upsert", "backupFetch", "backupInsert", "pruneSelect",
     "pruneDelete", "dlFetch", "rsFetch", "rsUpsert", "hcCount", "daDelete",
     "gbSelect", "tUpsert", "tSelect"}
\* the request of a call that awaits one: the table, the kind, the user_id
\* predicate (.eq('user_id', ...)) or the user_id of the row it writes
\* (NoUser: the request names no user), and the id predicate, if any.  The
\* delete of deleteOldBackups is .delete().in('id', toDelete) and nothing
\* more.
Request(c) ==
    [table |-> IF c.pc \in {"backupInsert", "pruneSelect", "pruneDelete", "rsFetch",
                             "gbSelect"}
               THEN "user_data_backups" ELSE "user_data",
     kind |-> IF c.pc \in {"upsert", "rsUpsert", "tUpsert"} THEN "upsert"
              ELSE IF c.pc = "backupInsert" THEN "insert"
              ELSE IF c.pc \in {"pruneDelete", "daDelete"} THEN "delete"
              ELSE "select",
     user_id |-> IF c.pc = "pruneDelete" THEN NoUser ELSE c.userId,
     byId |-> c.pc \in {"pruneDelete", "rsFetch"},
     ids |-> IF c.pc = "pruneDelete" THEN c.toDelete
             ELSE IF c.pc = "rsFetch" THEN {c.backupId}
             ELSE {}]
\* the rows of the table that the predicates of a request match
Matched(q) ==
    LET table == IF q.table = "user_data" THEN user_data ELSE user_data_backups IN
    {r \in table : /\ q.user_id # NoUser => r.user_id = q.user_id
                   /\ q.byId => r.id \in q.ids}

(* --- AuthProvider --- *)
\* signInWithCloud(email, password) after supabase.auth.signInWithPassword
\* resolved with the user: the store is examined and the session password
\* set (validatePassword true: setPassword; otherwise setupPassword), up to
\* the call of the sync service.  When setupPassword throws the handler
\* returns its failure.
SignInStore(store, pw, salt, iv, putOk) ==
    IF hasPassword(store.db) /\ validatePassword(store.db[PASSWORD_CHECK_KEY], pw).truth
    THEN [store EXCEPT !.password = pw]
    ELSE setupPassword(store, pw, salt, iv, putOk)
SignInThen(store, pw, putOk) ==
    IF hasPassword(store.db) /\ validatePassword(store.db[PASSWORD_CHECK_KEY], pw).truth
    THEN "syncAll"
    ELSE IF ~putOk THEN "failed"
    ELSE IF hasPassword(store.db) THEN "downloadAll"
    ELSE "hasCloudData"
SignInCached(cache, store, pw, salt) ==
    LET tried == IF hasPassword(store.db)
                 THEN ValidatePasswordCached(cache, store.db[PASSWORD_CHECK_KEY], pw)
                 ELSE cache
    IN  IF SignInThen(store, pw, TRUE) = "syncAll" THEN tried
        ELSE EncryptCached(tried, pw, salt)
SignInWithCloud(d, s, user, pw, salt, iv, putOk) ==
    /\ supabase
    /\ calls[d][s].op = "idle"
    /\ authUser' = [authUser EXCEPT ![d] = user]
    /\ LET after == SignInStore(StoreOf(d), pw, salt, iv, putOk)
           then == SignInThen(StoreOf(d), pw, putOk)
       IN  /\ db' = [db EXCEPT ![d] = after.db]
           /\ password' = [password EXCEPT ![d] = after.password]
           /\ calls' = [calls EXCEPT ![d][s] =
                  IF then = "failed" THEN IdleCall
                  ELSE [IdleCall EXCEPT !.op = "signInWithCloud", !.pc = then]]
    /\ keyCache' = [keyCache EXCEPT ![d] = SignInCached(@, StoreOf(d), pw, salt)]
    /\ migrations' = [migrations EXCEPT ![d] = << >>]
    /\ UNCHANGED <<clock, timestamps, supabase, syncProvider, returned, remoteVars, isSyncing, lastWrite>>

\* signInWithCloud: the awaited call of the sync service starts
SignInSync(d, s) ==
    /\ calls[d][s].op = "signInWithCloud"
    /\ LET then == calls[d][s].pc
           started == IF then = "syncAll" THEN SyncAllStart(d)
                      ELSE IF then = "downloadAll" THEN DownloadAllStart(d)
                      ELSE HasCloudDataStart(d)
       IN  calls' = [calls EXCEPT ![d][s] = [started EXCEPT !.caller = "signInWithCloud"]]
    /\ UNCHANGED <<clock, storeVars, authUser, supabase, syncProvider, keyCache, returned, remoteVars, isSyncing, migrations, lastWrite>>

\* signUpWithCloud(email, password) after supabase.auth.signUp resolved with
\* the user: setupPassword(password), then the awaited uploadAll() up to its
\* first await.  When setupPassword throws the handler returns its failure.
SignUpWithCloud(d, s, user, pw, salt, iv, putOk) ==
    /\ supabase
    /\ calls[d][s].op = "idle"
    /\ LET after == setupPassword(StoreOf(d), pw, salt, iv, putOk) IN
         /\ db' = [db EXCEPT ![d] = after.db]
         /\ password' = [password EXCEPT ![d] = after.password]
    /\ authUser' = IF putOk THEN [authUser EXCEPT ![d] = user] ELSE authUser
    /\ calls' = [calls EXCEPT ![d][s] =
           IF putOk
           THEN [UploadAllStart(d, "part_004") EXCEPT !.caller = "signUpWithCloud"]
           ELSE IdleCall]
    /\ keyCache' = [keyCache EXCEPT ![d] = EncryptCached(@, pw, salt)]
    /\ migrations' = [migrations EXCEPT ![d] = << >>]
    /\ UNCHANGED <<clock, timestamps, supabase, syncProvider, returned, remoteVars, isSyncing, lastWrite>>

\* linkToCloud(email) with a password in the provider's state, after
\* supabase.auth.signUp resolved with the user: the awaited uploadAll() up
\* to its first await
LinkToCloud(d, s, user) ==
    /\ supabase /\ password[d] # NoPassword
    /\ calls[d][s].op = "idle"
    /\ authUser' = [authUser EXCEPT ![d] = user]
    /\ calls' = [calls EXCEPT ![d][s] =
           [UploadAllStart(d, "part_004") EXCEPT !.caller = "linkToCloud"]]
    /\ UNCHANGED <<clock, storeVars, supabase, syncProvider, keyCache, returned, remoteVars, isSyncing, migrations, lastWrite>>

(* --- SyncProvider --- *)
\* useState of syncState, and what the effects of the first render register:
\* handleOnline closes over syncState.isEnabled and over the sync() of the
\* render in which isEnabled last changed, hence over the isOnline of that
\* render (handlerOnline).  event and attempts are history: the last event
\* the provider handled and the calls of syncService.syncAll() it made.
Mounted(online) ==
    [isEnabled |-> FALSE, isSyncing |-> FALSE, lastSyncAt |-> NoTs, isOnline |-> online,
     handlerOnline |-> online, event |-> "mount", attempts |-> 0]

\* sync() as created in a render with these isEnabled and isOnline: TRUE
\* when it goes on to call syncService.syncAll()
sync(isEnabled, isOnline) == isEnabled /\ isOnline
\* the auto-sync effect, run after a render in which isEnabled or isOnline
\* changed: TRUE when it calls syncService.syncAll()
autoSync(state) ==
    /\ state.isEnabled /\ state.isOnline /\ state.lastSyncAt = NoTs
    /\ sync(state.isEnabled, state.isOnline)

IdleSlots(d) == {s \in Slots : calls[d][s].op = "idle"}
\* n calls of syncService.syncAll() made in one task, each up to its first
\* await
Attempt(d, n) ==
    /\ Cardinality(IdleSlots(d)) >= n
    /\ calls' = [calls EXCEPT ![d] = [s \in Slots |->
           IF s \in IdleSlots(d) /\ Cardinality({t \in IdleSlots(d) : t <= s}) <= n
           THEN [SyncAllStart(d) EXCEPT !.caller = "sync"]
           ELSE calls[d][s]]]
\* the provider after an event in which it called syncAll() n times
Handled(state, event, n) ==
    [state EXCEPT !.event = event, !.attempts = n,
                  !.isSyncing = IF n > 0 THEN TRUE ELSE @]

\* useAuth() gives another isCloudEnabled && isAuthenticated: isEnabled is
\* set, and after the render handleOnline is registered again and the
\* auto-sync effect runs
AuthChanged(d, enabled) ==
    /\ enabled # syncProvider[d].isEnabled
    /\ LET state == [syncProvider[d] EXCEPT !.isEnabled = enabled,
                                            !.handlerOnline = syncProvider[d].isOnline]
           n == IF autoSync(state) THEN 1 ELSE 0
       IN  /\ syncProvider' = [syncProvider EXCEPT ![d] = Handled(state, "auth", n)]
           /\ Attempt(d, n)
    /\ UNCHANGED <<clock, storeVars, authUser, supabase, keyCache, returned, remoteVars, isSyncing, migrations, lastWrite>>

\* the window's 'online' event: handleOnline sets isOnline and calls the
\* sync() it closed over; after the render the auto-sync effect runs
HandleOnline(d) ==
    /\ ~syncProvider[d].isOnline
    /\ LET before == syncProvider[d]
           state == [before EXCEPT !.isOnline = TRUE]
           n == (IF before.isEnabled /\ sync(before.isEnabled, before.handlerOnline)
                 THEN 1 ELSE 0)
                + (IF autoSync(state) THEN 1 ELSE 0)
       IN  /\ syncProvider' = [syncProvider EXCEPT ![d] = Handled(state, "online", n)]
           /\ Attempt(d, n)
    /\ UNCHANGED <<clock, storeVars, authUser, supabase, keyCache, returned, remoteVars, isSyncing, migrations, lastWrite>>

\* the window's 'offline' event
HandleOffline(d) ==
    /\ syncProvider[d].isOnline
    /\ syncProvider' = [syncProvider EXCEPT ![d] =
           Handled([@ EXCEPT !.isOnline = FALSE], "offline", 0)]
    /\ UNCHANGED <<clock, storeVars, authUser, supabase, keyCache, returned, remoteVars, syncVars, migrations, lastWrite>>

\* a consumer of the context calls sync() of the current render
ManualSync(d) ==
    /\ LET n == IF sync(syncProvider[d].isEnabled, syncProvider[d].isOnline)
                THEN 1 ELSE 0
       IN  /\ syncProvider' = [syncProvider EXCEPT ![d] = Handled(@, "sync", n)]
           /\ Attempt(d, n)
    /\ UNCHANGED <<clock, storeVars, authUser, supabase, keyCache, returned, remoteVars, isSyncing, migrations, lastWrite>>

\* sync(): syncService.syncAll() resolved; lastSyncAt is set
SyncResolved(d, s) ==
    /\ At(d, s, {"syncAll"}, "returned")
    /\ calls[d][s].caller = "sync"
    /\ calls' = [calls EXCEPT ![d][s] = IdleCall]
    /\ syncProvider' = [syncProvider EXCEPT ![d] =
           [@ EXCEPT !.isSyncing = FALSE, !.lastSyncAt = clock,
                     !.event = "resolved", !.attempts = 0]]
    /\ UNCHANGED <<clock, storeVars, authUser, supabase, keyCache, returned, remoteVars, isSyncing, migrations, lastWrite>>

(* --------------------------- specifications --------------------------- *)
\* Every device has run setupPassword("pw1") and is signed in as user A;
\* nothing is stored yet, locally or remotely.
NoReturn ==
    [op |-> "none", key |-> "none", arg |-> "none", threw |-> FALSE, value |-> Null,
     truth |-> FALSE, turn |-> 0]
\* the state outside the object stores: the session of every device (its
\* password, the key cache, the signed-in user) and whether the Supabase
\* client is configured
InitDevice(pw, cache, user, configured) ==
    /\ supabase = configured
    /\ keyCache = [d \in Devices |-> cache]
    /\ returned = [d \in Devices |-> NoReturn]
    /\ clock = 1
    /\ timestamps = [d \in Devices |-> EmptyLedger]
    /\ password = [d \in Devices |-> pw]
    /\ authUser = [d \in Devices |-> user]
    /\ nextBackupId = 1
    /\ isSyncing = [d \in Devices |-> FALSE]
    /\ calls = [d \in Devices |-> [s \in Slots |-> IdleCall]]
    /\ migrations = [d \in Devices |-> << >>]
    /\ lastWrite = [d \in Devices |-> [k \in SyncableSet |-> NoWrite]]

\* ... with the SyncProvider mounted online
InitLocal(pw, cache, user, configured) ==
    /\ InitDevice(pw, cache, user, configured)
    /\ syncProvider = [d \in Devices |-> Mounted(TRUE)]

\* ... and nothing is stored remotely
InitSession(pw, cache, user, configured) ==
    /\ InitLocal(pw, cache, user, configured)
    /\ user_data = {}
    /\ user_data_backups = {}

InitOutsideDb == InitSession("pw1", {CacheKey("pw1", <<Hex("s1")>>)}, "A", TRUE)

Init ==
    /\ db = [d \in Devices |->
               [EmptyDb EXCEPT ![PASSWORD_CHECK_KEY] =
                   encrypt(PASSWORD_CHECK_VALUE, "pw1", "s1", "s1")]]
    /\ InitOutsideDb

\* what the collaborators of one device write: <<key, value, salt, iv>>
Writes ==
    {<<"classes", Str1("a"), "s1", "s1">>, <<"classes", Str1("a"), "s2", "s1">>,
     <<"appSettings", EmptyString, "s1", "s1">>, <<"appSettings", Str1("a"), "s1", "s1">>}

\* the steps of the pending calls of device d
SyncAllSteps(d, s) ==
    \/ SyncAllGetUser(d, s)
    \/ \E ok \in BOOLEAN : SyncAllFetch(d, s, ok)
    \/ SyncAllGetTimestamps(d, s)
    \/ UploadGetRawItem(d, s)
    \/ \E ok \in BOOLEAN : UploadUpsert(d, s, ok)
    \/ \E ok \in BOOLEAN, outcome \in StorageOutcomes : DownloadSelect(d, s, ok, outcome)
    \/ Return(d, s)

\* One device; its calls and writes follow one another (no call starts and
\* no collaborator writes while a call is pending).
Next ==
    \/ Tick
    \/ \E w \in Writes :
          AllIdle /\ SetItem("d1", w[1], w[2], w[3], w[4]) /\ UNCHANGED lastWrite
    \/ \E k \in {"classes", "appSettings"} : AllIdle /\ RemoveItem("d1", k)
    \/ AllIdle /\ Clear("d1")
    \/ AllIdle /\ SyncAllCall("d1", 1)
    \/ SyncAllSteps("d1", 1)

Spec == Init /\ [][Next]_vars

\* The same device when every request is answered (with data or an error)
\* and every continuation of a pending call is run: the steps of a pending
\* call are not postponed for ever.
LiveSpec == Init /\ [][Next]_vars /\ WF_vars(SyncAllSteps("d1", 1))

\* Two devices of one account; each writes the key "classes" once before
\* anything is uploaded, then the devices sync in any order, one call at a
\* time.
LwwWrites == {<<"classes", Str1("a"), "s1", "s1">>, <<"classes", Str1("a"), "s2", "s1">>}
LwwNext ==
    \/ Tick
    \/ \E d \in Devices, w \in LwwWrites :
          /\ AllIdle /\ user_data = {} /\ lastWrite[d][w[1]] = NoWrite
          /\ SetItem(d, w[1], w[2], w[3], w[4]) /\ Logged(d, w[1])
    \/ \E d \in Devices : AllIdle /\ SyncAllCall(d, 1)
    \/ \E d \in Devices : SyncAllSteps(d, 1)

LwwSpec == Init /\ [][LwwNext]_vars

\* One device, one call at a time: writes, uploadAll (either copy of the
\* service), createBackup and restoreBackup, with every remote request and
\* every store write free to fail.
BackupWrites == {<<"classes", Str1("a"), "s1", "s1">>, <<"classes", Str1("a"), "s2", "s1">>}
BackupSteps(d, s) ==
    \/ UploadAllGetUser(d, s)
    \/ BackupGetUser(d, s)
    \/ \E ok \in BOOLEAN : BackupFetch(d, s, ok)
    \/ \E ok \in BOOLEAN : BackupInsert(d, s, ok)
    \/ \E ok \in BOOLEAN : PruneSelect(d, s, ok)
    \/ \E ok \in BOOLEAN : PruneDelete(d, s, ok)
    \/ UploadAllGet(d, s)
    \/ UploadGetRawItem(d, s)
    \/ \E ok \in BOOLEAN : UploadUpsert(d, s, ok)
    \/ RestoreGetUser(d, s)
    \/ \E ok \in BOOLEAN : RestoreFetch(d, s, ok)
    \/ \E ok \in BOOLEAN : RestoreUpsert(d, s, ok)
    \/ DownloadAllGetUser(d, s)
    \/ \E ok \in BOOLEAN : DownloadAllFetch(d, s, ok)
    \/ \E outcome \in StorageOutcomes : DownloadAllStore(d, s, outcome)
    \/ Return(d, s)

BackupNext ==
    \/ Tick
    \/ \E w \in BackupWrites :
          AllIdle /\ SetItem("d1", w[1], w[2], w[3], w[4]) /\ UNCHANGED lastWrite
    \/ \E copy \in Copies : AllIdle /\ UploadAllCall("d1", 1, copy)
    \/ AllIdle /\ CreateBackupCall("d1", 1)
    \/ \E id \in 1..MaxBackupId : AllIdle /\ RestoreBackupCall("d1", 1, id)
    \/ BackupSteps("d1", 1)

BackupSpec == Init /\ [][BackupNext]_vars

\* One device whose callers (the login, the providers' timers and buttons)
\* start syncAll, uploadAll and downloadAll without waiting for one another:
\* the steps of the pending calls interleave.
RaceWrites == {<<"classes", Str1("a"), "s1", "s1">>}
RaceSteps(d, s) ==
    \/ SyncAllSteps(d, s)
    \/ UploadAllGetUser(d, s)
    \/ BackupGetUser(d, s)
    \/ \E ok \in BOOLEAN : BackupFetch(d, s, ok)
    \/ \E ok \in BOOLEAN : BackupInsert(d, s, ok)
    \/ \E ok \in BOOLEAN : PruneSelect(d, s, ok)
    \/ \E ok \in BOOLEAN : PruneDelete(d, s, ok)
    \/ UploadAllGet(d, s)
    \/ DownloadAllGetUser(d, s)
    \/ \E ok \in BOOLEAN : DownloadAllFetch(d, s, ok)
    \/ \E outcome \in StorageOutcomes : DownloadAllStore(d, s, outcome)

\* A syncAll starts (slot 1); while it is pending a second call starts (slot
\* 2): a syncAll, an uploadAll or a downloadAll.  Time passes and the
\* collaborators write between the calls.
RaceNext ==
    \/ AllIdle /\ Tick
    \/ \E w \in RaceWrites :
          /\ AllIdle /\ user_data = {}
          /\ SetItem("d1", w[1], w[2], w[3], w[4]) /\ UNCHANGED lastWrite
    \/ AllIdle /\ SyncAllCall("d1", 1)
    \/ Running("d1") # {} /\ SyncAllCall("d1", 2)
    \/ Running("d1") # {} /\ UploadAllCall("d1", 2, "part_004")
    \/ Running("d1") # {} /\ DownloadAllCall("d1", 2)
    \/ \E s \in Slots : RaceSteps("d1", s)

RaceSpec == Init /\ [][RaceNext]_vars

\* The stores migrateUnencryptedData can find under the session password
\* "pw1": each encrypted key is absent, legacy plaintext (empty, one
\* character, or of the shape a:b:c), encrypted under the session password
\* (a value, or the empty string), or encrypted under another password.
LegacyValues ==
    {Null, EmptyString, Str1("a"), <<Chr("a"), Colon, Chr("b"), Colon, Chr("c")>>,
     encrypt(Str1("a"), "pw1", "s1", "s1"), encrypt(EmptyString, "pw1", "s1", "s1"),
     encrypt(Str1("a"), "pw2", "s1", "s1")}
MigrateInit ==
    /\ InitOutsideDb
    /\ \E stored \in [EncryptedSet -> LegacyValues] :
          db = [d \in Devices |->
                  [k \in DbKeys |->
                      IF k \in EncryptedSet /\ d = "d1" THEN stored[k]
                      ELSE IF k = PASSWORD_CHECK_KEY
                      THEN encrypt(PASSWORD_CHECK_VALUE, "pw1", "s1", "s1")
                      ELSE Null]]

\* migrateUnencryptedData() is called, and called again
MigrateNext == MigrateUnencryptedData("d1")

MigrateSpec == MigrateInit /\ [][MigrateNext]_vars

\* One device from its first run on: the store may hold legacy plaintext
\* under an encrypted key; no password is set up and nobody is signed in.
\* The callers of BrowserStorage call its methods one after another.
Passwords == {"pw1", "pw2"}
LegacyText == <<Chr("a"), Colon, Chr("b"), Colon, Chr("c")>>
StoreInit ==
    /\ InitSession(NoPassword, {}, NoUser, TRUE)
    /\ \E legacy \in {Null, Str1("a"), LegacyText} :
          db = [d \in Devices |->
                  [EmptyDb EXCEPT !["classes"] = IF d = "d1" THEN legacy ELSE Null]]

\* the texts the collaborators store: the empty text, plain text, JSON
\* text as JSON.stringify writes it (1), JSON text with white space ( 1)
\* and a JSON string literal ("a")
Plaintexts ==
    {EmptyString, Str1("a"), Str1("1"), <<Space, Chr("1")>>, <<Quote, Chr("a"), Quote>>}
StoreWrites ==
    {<<"classes", text, "s1", "s1">> : text \in Plaintexts}
        \cup {<<"appSettings", Str1("a"), "s1", "s1">>,
              \* a sentinel that is no ciphertext
              <<PASSWORD_CHECK_KEY, LegacyText, "s1", "s1">>}

StoreNext ==
    \/ \E w \in StoreWrites :
          SetItem("d1", w[1], w[2], w[3], w[4]) /\ UNCHANGED lastWrite
    \/ \E k \in {"classes", "appSettings"} : GetItem("d1", k)
    \/ \E pw \in Passwords : ValidatePassword("d1", pw)
    \/ HasPassword("d1")
    \* login: setPassword follows a validatePassword that returned true
    \/ \E pw \in Passwords :
          /\ returned["d1"].op = "validatePassword"
          /\ returned["d1"].arg = pw /\ returned["d1"].truth
          /\ SetPassword("d1", pw)
    \/ ClearPassword("d1")
    \* the login screen offers the set-up while hasPassword() is false
    \/ \E pw \in Passwords, putOk \in BOOLEAN :
          ~hasPassword(db["d1"]) /\ SetupPassword("d1", pw, "s1", "s1", putOk)
    \/ \E failAt \in 0..Len(KeysToDelete) : ResetAllData("d1", failAt)
    \/ Clear("d1")

StoreSpec == StoreInit /\ [][StoreNext]_vars

\* One device from its first run on, driven by the login screen and the
\* AuthProvider: set-up, login, logout, reset, sign-in to the cloud account
\* (whose password need not be the local one) and the sync call the sign-in
\* awaits; the collaborators write one key.  clear() and removeItem() have
\* no caller in the application.  The remote requests and the store writes
\* of the sync call succeed.
AuthInit ==
    /\ InitSession(NoPassword, {}, NoUser, TRUE)
    /\ db = [d \in Devices |-> EmptyDb]
AuthSteps(d, s) ==
    \/ SignInSync(d, s)
    \/ SyncAllGetUser(d, s)
    \/ SyncAllFetch(d, s, TRUE)
    \/ SyncAllGetTimestamps(d, s)
    \/ UploadGetRawItem(d, s)
    \/ UploadUpsert(d, s, TRUE)
    \/ DownloadSelect(d, s, TRUE, "ok")
    \/ HasCloudGetUser(d, s)
    \/ HasCloudCount(d, s, TRUE)
    \/ DownloadAllGetUser(d, s)
    \/ DownloadAllFetch(d, s, TRUE)
    \/ DownloadAllStore(d, s, "ok")
    \/ Return(d, s)
AuthNext ==
    \/ AllIdle /\ Tick
    \/ AllIdle /\ SetItem("d1", "classes", Str1("a"), "s1", "s1") /\ UNCHANGED lastWrite
    \/ \E pw \in Passwords, putOk \in BOOLEAN :
          /\ AllIdle /\ ~hasPassword(db["d1"])
          /\ SetupPassword("d1", pw, "s1", "s1", putOk)
    \/ \E pw \in Passwords : AllIdle /\ ValidatePassword("d1", pw)
    \/ \E pw \in Passwords :
          /\ AllIdle /\ returned["d1"].op = "validatePassword"
          /\ returned["d1"].arg = pw /\ returned["d1"].truth
          /\ SetPassword("d1", pw)
    \/ AllIdle /\ ClearPassword("d1")
    \/ \E failAt \in 0..Len(KeysToDelete) : AllIdle /\ ResetAllData("d1", failAt)
    \/ \E pw \in Passwords, putOk \in BOOLEAN :
          AllIdle /\ SignInWithCloud("d1", 1, "A", pw, "s2", "s1", putOk)
    \/ AuthSteps("d1", 1)

AuthSpec == AuthInit /\ [][AuthNext]_vars

\* One device whose storage calls are not awaited one after another: a
\* collaborator writes "classes" (slot 1) while another writes "appSettings"
\* or the download of a sync stores the remote row of "appSettings" (slot
\* 2); the requests of the pending calls interleave.  A remote row was
\* stamped when it was uploaded, so its timestamp is not ahead of the clock.
LedgerWrites == {<<"classes", Str1("a"), "s1", "s1">>}
LedgerOthers == {<<"appSettings", Str1("a"), "s1", "s1">>}
LedgerRows == {Row("A", "appSettings", Str1("b"), t) : t \in 1..MaxTime}
LedgerSteps(d, s) ==
    \/ \E ok \in BOOLEAN : StoragePut(d, s, ok)
    \/ StorageGetTimestamps(d, s)
    \/ \E ok \in BOOLEAN : StoragePutTimestamps(d, s, ok)
    \/ Return(d, s)
LedgerNext ==
    \/ Tick
    \/ \E w \in LedgerWrites : SetItemCall("d1", 1, w[1], w[2], w[3], w[4])
    \/ \E w \in LedgerOthers : SetItemCall("d1", 2, w[1], w[2], w[3], w[4])
    \/ \E r \in LedgerRows :
          /\ r.updated_at <= clock
          /\ SetRawItemWithTimestampCall("d1", 2, r.data_type, r.encrypted_data, r.updated_at)
    \/ \E s \in Slots : LedgerSteps("d1", s)

LedgerSpec == Init /\ [][LedgerNext]_vars

\* Two accounts.  User B has uploaded a row and holds a backup of it (made
\* before the backups of the model, id 0); user A works on device d1, one
\* call at a time, with every operation of the sync service.  The remote
\* requests and the store writes succeed.
RowsOfB == {Row("B", "classes", encrypt(Str1("b"), "pw2", "s1", "s1"), 1)}
IsoInit ==
    /\ InitLocal("pw1", {CacheKey("pw1", <<Hex("s1")>>)}, "A", TRUE)
    /\ db = [d \in Devices |->
               [EmptyDb EXCEPT ![PASSWORD_CHECK_KEY] =
                   encrypt(PASSWORD_CHECK_VALUE, "pw1", "s1", "s1")]]
    /\ user_data = RowsOfB
    /\ user_data_backups = {BackupRow(0, "B", BackupData(RowsOfB))}
IsoSteps(d, s) ==
    \/ SyncAllGetUser(d, s)
    \/ SyncAllFetch(d, s, TRUE)
    \/ SyncAllGetTimestamps(d, s)
    \/ UploadGetRawItem(d, s)
    \/ UploadUpsert(d, s, TRUE)
    \/ DownloadSelect(d, s, TRUE, "ok")
    \/ UploadAllGetUser(d, s)
    \/ UploadAllGet(d, s)
    \/ BackupGetUser(d, s)
    \/ BackupFetch(d, s, TRUE)
    \/ BackupInsert(d, s, TRUE)
    \/ PruneSelect(d, s, TRUE)
    \/ PruneDelete(d, s, TRUE)
    \/ DownloadAllGetUser(d, s)
    \/ DownloadAllFetch(d, s, TRUE)
    \/ DownloadAllStore(d, s, "ok")
    \/ RestoreGetUser(d, s)
    \/ RestoreFetch(d, s, TRUE)
    \/ RestoreUpsert(d, s, TRUE)
    \/ DeleteAllGetUser(d, s)
    \/ DeleteAllDelete(d, s, TRUE)
    \/ GetBackupsGetUser(d, s)
    \/ GetBackupsSelect(d, s, TRUE)
    \/ TransferGetUser(d, s)
    \/ TransferGetRawItem(d, s)
    \/ TransferUpsert(d, s, TRUE)
    \/ TransferSelect(d, s, TRUE, "ok")
    \/ Return(d, s)
IsoNext ==
    \/ AllIdle /\ Tick
    \/ AllIdle /\ SetItem("d1", "classes", Str1("a"), "s1", "s1") /\ UNCHANGED lastWrite
    \/ AllIdle /\ SyncAllCall("d1", 1)
    \/ AllIdle /\ UploadAllCall("d1", 1, "part_004")
    \/ AllIdle /\ DownloadAllCall("d1", 1)
    \/ AllIdle /\ DeleteAllCloudDataCall("d1", 1)
    \/ AllIdle /\ CreateBackupCall("d1", 1)
    \/ AllIdle /\ GetBackupsCall("d1", 1)
    \/ \E id \in 0..MaxBackupId : AllIdle /\ RestoreBackupCall("d1", 1, id)
    \/ AllIdle /\ UploadDataTypeCall("d1", 1, "classes")
    \/ AllIdle /\ DownloadDataTypeCall("d1", 1, "classes")
    \/ IsoSteps("d1", 1)

IsoSpec == IsoInit /\ [][IsoNext]_vars

\* A build without the configuration of the remote service (supabase is
\* null): the device writes locally and calls every public method of the
\* sync service, one at a time.
SyncOps ==
    {"syncAll", "uploadDataType", "downloadDataType", "uploadAll", "downloadAll",
     "hasCloudData", "deleteAllCloudData", "createBackup", "getBackups",
     "restoreBackup"}
OfflineInit ==
    /\ InitSession("pw1", {CacheKey("pw1", <<Hex("s1")>>)}, NoUser, FALSE)
    /\ db = [d \in Devices |->
               [EmptyDb EXCEPT ![PASSWORD_CHECK_KEY] =
                   encrypt(PASSWORD_CHECK_VALUE, "pw1", "s1", "s1")]]
OfflineNext ==
    \/ AllIdle /\ Tick
    \/ \E key \in {"classes", "appSettings"} :
          AllIdle /\ SetItem("d1", key, Str1("a"), "s1", "s1") /\ UNCHANGED lastWrite
    \/ AllIdle /\ SyncAllCall("d1", 1)
    \/ \E key \in SyncableSet : AllIdle /\ UploadDataTypeCall("d1", 1, key)
    \/ \E key \in SyncableSet : AllIdle /\ DownloadDataTypeCall("d1", 1, key)
    \/ AllIdle /\ UploadAllCall("d1", 1, "part_004")
    \/ AllIdle /\ DownloadAllCall("d1", 1)
    \/ AllIdle /\ HasCloudDataCall("d1", 1)
    \/ AllIdle /\ DeleteAllCloudDataCall("d1", 1)
    \/ AllIdle /\ CreateBackupCall("d1", 1)
    \/ AllIdle /\ GetBackupsCall("d1", 1)
    \/ \E id \in 0..MaxBackupId : AllIdle /\ RestoreBackupCall("d1", 1, id)
    \/ Return("d1", 1)

OfflineSpec == OfflineInit /\ [][OfflineNext]_vars

\* The SyncProvider of one device: the account is signed in and out, the
\* network comes and goes, sync() is called by hand, in any order, while the
\* syncAll() calls the provider made run (the select of the remote
\* timestamps free to fail).
ProviderInit ==
    /\ InitDevice("pw1", {CacheKey("pw1", <<Hex("s1")>>)}, "A", TRUE)
    /\ db = [d \in Devices |->
               [EmptyDb EXCEPT ![PASSWORD_CHECK_KEY] =
                   encrypt(PASSWORD_CHECK_VALUE, "pw1", "s1", "s1")]]
    /\ user_data = {}
    /\ user_data_backups = {}
    /\ \E online \in BOOLEAN : syncProvider = [d \in Devices |-> Mounted(online)]
ProviderNext ==
    \/ AllIdle /\ SetItem("d1", "classes", Str1("a"), "s1", "s1") /\ UNCHANGED lastWrite
    \/ \E enabled \in BOOLEAN : AuthChanged("d1", enabled)
    \/ HandleOnline("d1")
    \/ HandleOffline("d1")
    \/ ManualSync("d1")
    \/ \E s \in Slots : SyncAllGetUser("d1", s)
    \/ \E s \in Slots, ok \in BOOLEAN : SyncAllFetch("d1", s, ok)
    \/ \E s \in Slots : SyncAllGetTimestamps("d1", s)
    \/ \E s \in Slots : UploadGetRawItem("d1", s)
    \/ \E s \in Slots : UploadUpsert("d1", s, TRUE)
    \/ \E s \in Slots : SyncResolved("d1", s)

ProviderSpec == ProviderInit /\ [][ProviderNext]_vars

\* One device that writes, removes and uploads everything, one call at a
\* time; the insert of a backup and every upsert are free to fail.  The
\* device may hold a value of 'exams' without a ledger entry (a setItem whose
\* put succeeded and whose ledger write was rejected).
UploadWrites ==
    {<<"classes", Str1("a"), "s1", "s1">>, <<"appSettings", Str1("a"), "s1", "s1">>}
UploadInit ==
    /\ InitOutsideDb
    /\ \E exams \in {Null, encrypt(Str1("a"), "pw1", "s2", "s1")} :
          db = [d \in Devices |->
                  [EmptyDb EXCEPT ![PASSWORD_CHECK_KEY] =
                                      encrypt(PASSWORD_CHECK_VALUE, "pw1", "s1", "s1"),
                                  !["exams"] = IF d = "d1" THEN exams ELSE Null]]
UploadSteps(d, s) ==
    \/ UploadAllGetUser(d, s)
    \/ BackupGetUser(d, s)
    \/ BackupFetch(d, s, TRUE)
    \/ \E ok \in BOOLEAN : BackupInsert(d, s, ok)
    \/ PruneSelect(d, s, TRUE)
    \/ PruneDelete(d, s, TRUE)
    \/ UploadAllGet(d, s)
    \/ UploadGetRawItem(d, s)
    \/ \E ok \in BOOLEAN : UploadUpsert(d, s, ok)
    \/ Return(d, s)
UploadNext ==
    \/ AllIdle /\ Tick
    \/ \E w \in UploadWrites :
          AllIdle /\ SetItem("d1", w[1], w[2], w[3], w[4]) /\ UNCHANGED lastWrite
    \/ AllIdle /\ RemoveItem("d1", "classes")
    \/ AllIdle /\ UploadAllCall("d1", 1, "part_004")
    \/ UploadSteps("d1", 1)

UploadSpec == UploadInit /\ [][UploadNext]_vars

\* a syncAll whose promise has resolved, its result not yet taken
SyncAllReturned(d, s) == calls[d][s].op = "syncAll" /\ calls[d][s].pc = "returned"

\* One device that writes and then calls syncAll twice in a row: the second
\* call (slot 2) starts when the first (slot 1) has returned, with nothing
\* written in between; time may pass.  Every request succeeds.
RepeatSteps(d, s) ==
    \/ SyncAllGetUser(d, s)
    \/ SyncAllFetch(d, s, TRUE)
    \/ SyncAllGetTimestamps(d, s)
    \/ UploadGetRawItem(d, s)
    \/ UploadUpsert(d, s, TRUE)
    \/ DownloadSelect(d, s, TRUE, "ok")
RepeatNext ==
    \/ Tick
    \/ \E w \in Writes :
          AllIdle /\ SetItem("d1", w[1], w[2], w[3], w[4]) /\ UNCHANGED lastWrite
    \/ AllIdle /\ SyncAllCall("d1", 1)
    \/ /\ SyncAllReturned("d1", 1) /\ calls["d1"][1].result.success
       /\ SyncAllCall("d1", 2)
    \/ \E s \in Slots : RepeatSteps("d1", s)
    \/ \E s \in Slots : Running("d1") = {} /\ Return("d1", s)

RepeatSpec == Init /\ [][RepeatNext]_vars

\* Two devices of one account.  Device d2 writes "classes" and syncs; device
\* d1 calls syncAll once, and a collaborator of d1 writes "classes" once
\* while that call is pending and has read the ledger (line 74).
LedgerRead(c) ==
    c.op = "syncAll" /\ c.pc \notin {"getUser", "fetch", "getTimestamps", "returned"}
DuringNext ==
    \/ Tick
    \/ \E w \in LwwWrites :
          /\ AllIdle /\ user_data = {}
          /\ SetItem("d2", w[1], w[2], w[3], w[4]) /\ UNCHANGED lastWrite
    \/ AllIdle /\ SyncAllCall("d2", 1)
    \/ AllIdle /\ lastWrite["d1"]["classes"] = NoWrite /\ SyncAllCall("d1", 1)
    \/ \E w \in LwwWrites :
          /\ LedgerRead(calls["d1"][1]) /\ lastWrite["d1"][w[1]] = NoWrite
          /\ SetItem("d1", w[1], w[2], w[3], w[4]) /\ Logged("d1", w[1])
    \/ \E d \in Devices : SyncAllSteps(d, 1)

DuringSpec == Init /\ [][DuringNext]_vars

\* One device that holds legacy plaintext (or nothing) under the encrypted
\* key "classes" at its first run with this version: the user creates the
\* cloud account from the login screen, the collaborators write, and time
\* advances between the calls.
SignUpNext ==
    \/ AllIdle /\ Tick
    \/ /\ AllIdle /\ password["d1"] # NoPassword
       /\ SetItem("d1", "exams", Str1("a"), "s1", "s1") /\ UNCHANGED lastWrite
    \/ \E pw \in Passwords, putOk \in BOOLEAN :
          /\ AllIdle /\ authUser["d1"] = NoUser
          /\ SignUpWithCloud("d1", 1, "A", pw, "s1", "s1", putOk)
    \/ AllIdle /\ LinkToCloud("d1", 1, "A")
    \/ UploadSteps("d1", 1)

SignUpSpec == StoreInit /\ [][SignUpNext]_vars

\* One device that writes two keys, uploads, makes backups and restores
\* them, one call at a time; every request and every store write succeeds.
RestoreSteps(d, s) ==
    \/ UploadAllGetUser(d, s)
    \/ BackupGetUser(d, s)
    \/ BackupFetch(d, s, TRUE)
    \/ BackupInsert(d, s, TRUE)
    \/ PruneSelect(d, s, TRUE)
    \/ PruneDelete(d, s, TRUE)
    \/ UploadAllGet(d, s)
    \/ UploadGetRawItem(d, s)
    \/ UploadUpsert(d, s, TRUE)
    \/ RestoreGetUser(d, s)
    \/ RestoreFetch(d, s, TRUE)
    \/ RestoreUpsert(d, s, TRUE)
    \/ DownloadAllGetUser(d, s)
    \/ DownloadAllFetch(d, s, TRUE)
    \/ DownloadAllStore(d, s, "ok")
    \/ Return(d, s)
RestoreNext ==
    \/ AllIdle /\ Tick
    \/ \E w \in UploadWrites :
          AllIdle /\ SetItem("d1", w[1], w[2], w[3], w[4]) /\ UNCHANGED lastWrite
    \/ AllIdle /\ UploadAllCall("d1", 1, "part_004")
    \/ AllIdle /\ CreateBackupCall("d1", 1)
    \/ \E id \in 1..MaxBackupId : AllIdle /\ RestoreBackupCall("d1", 1, id)
    \/ RestoreSteps("d1", 1)

RestoreSpec == Init /\ [][RestoreNext]_vars

\* One device from its first run on: set-up, login, logout, reset, and the
\* collaborators' writes, which are made whether or not a password is in
\* memory; time advances.
AwaitedWrites ==
    {<<"classes", Str1("a"), "s1", "s1">>, <<"exams", Str1("a"), "s1", "s1">>,
     <<"appSettings", Str1("a"), "s1", "s1">>}
AwaitedNext ==
    \/ Tick
    \/ \E w \in AwaitedWrites : SetItemAwaited("d1", w[1], w[2], w[3], w[4])
    \/ \E pw \in Passwords : ValidatePassword("d1", pw)
    \/ \E pw \in Passwords :
          /\ returned["d1"].op = "validatePassword"
          /\ returned["d1"].arg = pw /\ returned["d1"].truth
          /\ SetPassword("d1", pw)
    \/ ClearPassword("d1")
    \/ \E pw \in Passwords, putOk \in BOOLEAN :
          ~hasPassword(db["d1"]) /\ SetupPassword("d1", pw, "s1", "s1", putOk)
    \/ \E failAt \in 0..Len(KeysToDelete) : ResetAllData("d1", failAt)

AwaitedSpec == AuthInit /\ [][AwaitedNext]_vars

(* ------------------------------- claims ------------------------------- *)
InSeq(x, seq) == \E i \in 1..Len(seq) : seq[i] = x
Calls == Devices \X Slots
\* the remote timestamp of key when the call started
PreCloudTs(c, key) ==
    LET hit == {r \in c.pre.rows : r.data_type = key}
    IN  IF hit = {} THEN NoTs ELSE (CHOOSE r \in hit : TRUE).updated_at
PreRows(c, key) == {r \in c.pre.rows : r.data_type = key}
NowRows(c, key) == {r \in RowsOf(c.userId) : r.data_type = key}

\* C3 (as claimed): after an error-free syncAll, every key whose ledger
\* timestamp L existed and whose remote timestamp was absent or older than L
\* at the start has a remote row holding the local raw value with
\* updated_at = L, and is listed in uploaded and not in downloaded.
C3_UploadConverges ==
    \A p \in Calls :
        LET d == p[1]
            c == calls[p[1]][p[2]]
        IN  (SyncAllReturned(p[1], p[2]) /\ c.result.success) =>
                \A K \in SyncableSet :
                    LET L == c.pre.timestamps[K]
                        C == PreCloudTs(c, K)
                    IN  (L # NoTs /\ (C = NoTs \/ C < L)) =>
                            /\ NowRows(c, K) = {Row(c.userId, K, db[d][K], L)}
                            /\ InSeq(K, c.result.uploaded)
                            /\ ~InSeq(K, c.result.downloaded)

\* C4: after an error-free syncAll, every key whose remote timestamp C
\* existed and whose ledger timestamp was absent or older than C at the
\* start has the remote encrypted_data as its local raw value and C as its
\* ledger entry, and its remote row is the one it was.
C4_DownloadConverges ==
    \A p \in Calls :
        LET d == p[1]
            c == calls[p[1]][p[2]]
        IN  (SyncAllReturned(p[1], p[2]) /\ c.result.success) =>
                \A K \in SyncableSet :
                    LET L == c.pre.timestamps[K]
                        C == PreCloudTs(c, K)
                    IN  (C # NoTs /\ (L = NoTs \/ L < C)) =>
                            /\ NowRows(c, K) = PreRows(c, K)
                            /\ \A r \in NowRows(c, K) :
                                   /\ db[d][K] = r.encrypted_data
                                   /\ timestamps[d][K] = C
                                   /\ r.updated_at = C

\* C4 witness: an error-free syncAll has downloaded a key whose ledger entry
\* was absent, and one whose ledger entry was older than the remote row.
C4_Witness ==
    \E p \in Calls :
        LET c == calls[p[1]][p[2]] IN
        /\ SyncAllReturned(p[1], p[2]) /\ c.result.success
        /\ \E K \in SyncableSet :
               /\ PreCloudTs(c, K) # NoTs /\ c.pre.timestamps[K] = NoTs
               /\ InSeq(K, c.result.downloaded)
        /\ \E K \in SyncableSet :
               /\ c.pre.timestamps[K] # NoTs /\ c.pre.timestamps[K] < PreCloudTs(c, K)
               /\ InSeq(K, c.result.downloaded)
               /\ c.pre.db[K] # db[p[1]][K]

\* what key needed when the call started
Needed(c, key) == Decide(c.pre.timestamps[key], PreCloudTs(c, key))
NamesKey(c, key) == \E i \in 1..Len(c.result.errors) : c.result.errors[i][1] = key
Listed(c, key) == InSeq(key, c.result.uploaded) \/ InSeq(key, c.result.downloaded)
\* the value of key is the same on both sides
Transferred(d, c, key) ==
    \E r \in NowRows(c, key) : r.encrypted_data = db[d][key]

RemoteTs(uid, key) == IF HasRow(uid, key) THEN TheRow(uid, key).updated_at ELSE NoTs
\* no syncAll of any device would transfer key any more
Settled(key) ==
    /\ AllIdle
    /\ \A d \in Devices :
           Decide(timestamps[d][key], RemoteTs(authUser[d], key)) = "equal"
LaterWrite(key) ==
    CHOOSE w \in {lastWrite[d][key] : d \in Devices} :
        \A d \in Devices : lastWrite[d][key].at <= w.at

\* C5 (as claimed): when two devices have written a key at different
\* instants and have synced until no call transfers the key any more, both
\* devices and the remote row hold the value written later.
C5_LastWriterWins ==
    \A K \in SyncableSet :
        ( /\ \A d \in Devices : lastWrite[d][K] # NoWrite
          /\ lastWrite["d1"][K].at # lastWrite["d2"][K].at
          /\ Settled(K) ) =>
            /\ \A d \in Devices : db[d][K] = LaterWrite(K).value
            /\ TheRow("A", K).encrypted_data = LaterWrite(K).value

\* C1 (as claimed): a syncAll called while an earlier syncAll of the same
\* service has not returned sends no request for user_data, writes nothing to
\* the local store, and returns success = false with an error entry.
C1_ReentrantRejected ==
    \A p \in Calls :
        LET c == calls[p[1]][p[2]] IN
        (c.op = "syncAll" /\ "syncAll" \in c.overlapped) =>
            /\ ~c.accessed
            /\ ~c.wrote
            /\ c.pc = "returned" => (~c.result.success /\ c.result.errors # << >>)

\* C2 (as claimed): of the syncAll, uploadAll and downloadAll calls of one
\* service at most one is between its first remote data access and its
\* return, and one that starts while another is there is rejected with an
\* error result.
C2_MutualExclusion ==
    \A d \in Devices :
        /\ Cardinality({s \in Running(d) : calls[d][s].accessed}) <= 1
        /\ \A s \in Slots :
               (calls[d][s].op \in BulkOps /\ calls[d][s].busy # {}) =>
                   /\ calls[d][s].pc = "returned"
                   /\ ~calls[d][s].result.success
                   /\ calls[d][s].result.errors # << >>

\* C7 (as claimed): in every uploadAll, createBackup has completed before the
\* first upsert into user_data is sent; and when createBackup returned false,
\* every syncable key with local data whose upsert did not fail is uploaded.
C7_BackupBeforeUpload ==
    \A p \in Calls :
        LET d == p[1]
            c == calls[p[1]][p[2]]
        IN  c.op = "uploadAll" =>
              /\ c.pc = "upsert" => c.backupCreated # "none"
              /\ (c.pc = "returned" /\ c.backupCreated = "false") =>
                     \A K \in SyncableSet \ c.failed :
                         ~Falsy(c.pre.db[K]) =>
                             /\ InSeq(K, c.result.uploaded)
                             /\ \E r \in NowRows(c, K) : r.encrypted_data = db[d][K]

\* no call is inside createBackup
BackupPcs == {"backupGetUser", "backupFetch", "backupInsert", "pruneSelect", "pruneDelete"}
NoBackupRunning == \A p \in Calls : calls[p[1]][p[2]].pc \notin BackupPcs
\* the backups inserted for the user so far
Inserted == nextBackupId - 1

\* C8 (as claimed): whenever no createBackup is running, the user has at
\* most 3 backups; and once more than 3 backups have been inserted (so more
\* than 3 createBackup calls were made with remote rows), exactly 3 remain
\* and they are the 3 created last.
C8_BackupRotation ==
    NoBackupRunning =>
        /\ Cardinality(BackupsOf("A")) <= KEEP_BACKUPS
        /\ Inserted > KEEP_BACKUPS =>
               /\ Cardinality(BackupsOf("A")) = KEEP_BACKUPS
               /\ \A b \in BackupsOf("A") : b.created_at > Inserted - KEEP_BACKUPS

\* the snapshot a restoreBackup call names
SnapshotOf(c) == {b \in BackupsOf(c.userId) : b.id = c.backupId}

\* C9: when restoreBackup(id) has returned success = true, every data_type of
\* the snapshot has its remote row and its local raw value equal to the
\* snapshot's encrypted_data, and the row's updated_at and the local ledger
\* entry equal to the snapshot's updated_at; and when an upsert of the
\* restore or a step of its downloadAll failed, success is false.
C9_RestoreConverges ==
    \A p \in Calls :
        LET d == p[1]
            c == calls[p[1]][p[2]]
        IN  (c.op = "restoreBackup" /\ c.pc = "returned") =>
              /\ c.result.success =>
                     /\ SnapshotOf(c) # {}
                     /\ \A b \in SnapshotOf(c) : \A item \in b.backup_data :
                            /\ NowRows(c, item.data_type) =
                                   {Row(c.userId, item.data_type,
                                        item.encrypted_data, item.updated_at)}
                            /\ db[d][item.data_type] = item.encrypted_data
                            /\ timestamps[d][item.data_type] = item.updated_at
              /\ (c.failed \cup c.failedStore) # {} => ~c.result.success

\* C9 witness: a restoreBackup has returned success = true after replacing a
\* different remote row, local value and ledger entry by the snapshot's.
C9_Witness ==
    \E p \in Calls :
        LET d == p[1]
            c == calls[p[1]][p[2]]
        IN  /\ c.op = "restoreBackup" /\ c.pc = "returned" /\ c.result.success
            /\ \E b \in SnapshotOf(c) : \E item \in b.backup_data :
                   /\ c.pre.db[item.data_type] # item.encrypted_data
                   /\ c.pre.timestamps[item.data_type] # item.updated_at
                   /\ PreRows(c, item.data_type) # NowRows(c, item.data_type)
                   /\ db[d][item.data_type] = item.encrypted_data

\* C10 (as claimed): when migrateUnencryptedData has run twice back-to-back
\* (no store write failing), every stored value after the second call is the
\* value after the first call.
C10_MigrationIdempotent ==
    \A d \in Devices :
        (/\ Len(migrations[d]) = 2
         /\ ~migrations[d][1].failed
         /\ ~migrations[d][2].failed) =>
            migrations[d][2].db = migrations[d][1].db

\* a step in which the storage method op returns on d
Returns(d, op) == returned'[d] # returned[d] /\ returned'[d].op = op

\* C11: encryption round trip.  For every text P and password pw,
\* decrypt(encrypt(P, pw), pw) is P; so whenever the value stored under an
\* encrypted key K is what setItem(K, P) wrote under the session password,
\* getItem(K) returns exactly P (and does not throw).
C11_RoundTrip ==
    [][\A k \in EncryptedSet, P \in Plaintexts, salt \in Salts, iv \in Salts :
          (/\ Returns("d1", "getItem") /\ returned'["d1"].key = k
           /\ password["d1"] # NoPassword
           /\ db["d1"][k] = encrypt(P, password["d1"], salt, iv))
          => /\ decrypt(db["d1"][k], password["d1"]).ok
             /\ decrypt(db["d1"][k], password["d1"]).value = P
             /\ ~returned'["d1"].threw
             /\ returned'["d1"].value = P]_vars

\* the sentinel is what setupPassword(pw) wrote
WrittenBySetup(value, pw) ==
    \E salt \in Salts, iv \in Salts : value = encrypt(PASSWORD_CHECK_VALUE, pw, salt, iv)

C13_SentinelLifecycle ==
    [][db["d1"][PASSWORD_CHECK_KEY] # Null
          => \/ db'["d1"][PASSWORD_CHECK_KEY] = db["d1"][PASSWORD_CHECK_KEY]
             \/ /\ db'["d1"][PASSWORD_CHECK_KEY] = Null
                /\ Returns("d1", "resetAllData")]_vars

\* C14: ledger refresh on every local write.  When a setItem(K, v) on a
\* syncable key K has completed, the ledger holds an entry for K that is
\* not older than the start of the write and not older than the entry K had
\* before, whatever calls on other keys overlapped with the write.
C14_LedgerRefreshed ==
    \A s \in Slots :
        LET c == calls["d1"][s] IN
        (/\ c.op = "setItem" /\ c.pc = "returned" /\ ~c.threw
         /\ c.key \in SyncableSet)
        => /\ timestamps["d1"][c.key] # NoTs
           /\ timestamps["d1"][c.key] >= c.at
           /\ timestamps["d1"][c.key] >= c.prev

\* C15: only syncable keys leave the device.  Every row of user_data and
\* every entry of every backup has a data_type of SYNCABLE_KEYS; the key of
\* the password sentinel and the key of the ledger never appear remotely.
C15_OnlySyncableKeys ==
    LET Remote == {r.data_type : r \in user_data}
                      \cup UNION {{e.data_type : e \in b.backup_data} :
                                     b \in user_data_backups}
    IN  /\ Remote \subseteq SyncableSet
        /\ PASSWORD_CHECK_KEY \notin Remote
        /\ TIMESTAMPS_KEY \notin Remote
\* rows and a backup exist remotely while the device holds a sentinel and a
\* ledger entry
C15_Witness ==
    /\ user_data # {} /\ user_data_backups # {}
    /\ db["d1"][PASSWORD_CHECK_KEY] # Null
    /\ timestamps["d1"] # EmptyLedger

\* C16: per-user isolation.  Every request that a call of user A awaits
\* names A (as its user_id predicate, or as the user_id of the row it
\* writes) and matches rows of A only; and no step changes a user_data row
\* or a backup of user B.
C16_Isolation ==
    /\ [](\A s \in Slots :
            LET c == calls["d1"][s] IN
            c.pc \in RemotePcs
            => /\ Request(c).user_id = "A"
               /\ \A r \in Matched(Request(c)) : r.user_id = "A")
    /\ [][/\ RowsOf("B")' = RowsOf("B")
          /\ BackupsOf("B")' = BackupsOf("B")]_vars

\* C17: postcondition of resetAllData.  When a call of resetAllData() has
\* completed (returned without an error), hasPassword() is false,
\* hasPasswordInMemory() is false, the cache of derived keys is empty and
\* getRawItem(K) is null for every key K of ENCRYPTED_KEYS.
C17_ResetPostcondition ==
    [][(Returns("d1", "resetAllData") /\ ~returned'["d1"].threw)
       => /\ ~hasPassword(db'["d1"])
          /\ ~hasPasswordInMemory(password'["d1"])
          /\ keyCache'["d1"] = {}
          /\ \A k \in EncryptedSet : getRawItem(db'["d1"], k) = Null]_vars
\* resetAllData has completed on a store in which 'classes' had been written
\* (the ledger, which it keeps, still holds the entry of that write)
C17_Witness ==
    /\ returned["d1"].op = "resetAllData" /\ ~returned["d1"].threw
    /\ timestamps["d1"]["classes"] # NoTs
    /\ db["d1"]["classes"] = Null /\ password["d1"] = NoPassword

\* C18: legacy plaintext is readable.  In every store state, getItem(K) on
\* a key K of ENCRYPTED_KEYS whose stored value is not of the form
\* salt:iv:ciphertext returns the stored value unchanged and raises no error;
\* a stored value of that form is decrypted with the session password.
C18_LegacyReadable ==
    [][\A k \in EncryptedSet :
          LET value == db["d1"][k]
              answer == returned'["d1"] IN
          (Returns("d1", "getItem") /\ answer.key = k /\ value # Null)
          => IF LooksEncrypted(value)
             THEN password["d1"] # NoPassword
                  => LET decrypted == decrypt(value, password["d1"]) IN
                     /\ answer.threw = ~decrypted.ok
                     /\ decrypted.ok /\ IsString(decrypted.value)
                        => answer.value = decrypted.value
             ELSE ~answer.threw /\ answer.value = value]_vars

\* the value a returned call of a public method of the sync service gave is
\* a failure value: a SyncResult with success = false, false, or an empty
\* list
FailureValue(c) ==
    IF c.op \in {"syncAll", "uploadAll", "downloadAll", "restoreBackup"}
    THEN ~c.result.success
    ELSE IF c.op \in {"hasCloudData", "deleteAllCloudData"} THEN c.answer = "false"
    ELSE IF c.op = "createBackup" THEN c.backupCreated = "false"
    ELSE IF c.op = "getBackups" THEN c.list = << >>
    ELSE FALSE

\* C19: an unconfigured backend never throws.  Without a configured remote
\* service every call of a public method of the sync service returns a
\* failure value, throws nothing, and leaves the local store and the ledger
\* as they were when it was called.
C19_UnconfiguredNeverThrows ==
    ~supabase
    => \A s \in Slots :
          LET c == calls["d1"][s] IN
          (c.op \in SyncOps /\ c.pc = "returned")
          => /\ ~c.threw
             /\ FailureValue(c)
             /\ db["d1"] = c.pre.db /\ timestamps["d1"] = c.pre.timestamps

\* the positions of syncAll after the latch is set and before it returns
LatchedPcs == {"fetch", "getTimestamps", "getRawItem", "upsert", "select"}

\* C20: every sync runs to completion and releases the latch.  When every
\* request is answered, a call of syncAll that has set isSyncing returns a
\* SyncResult, and isSyncing is false when it returns.
C20_SyncCompletes ==
    \A s \in Slots :
        (/\ calls["d1"][s].op = "syncAll" /\ calls["d1"][s].pc \in LatchedPcs
         /\ isSyncing["d1"])
        ~> (/\ calls["d1"][s].op = "syncAll" /\ calls["d1"][s].pc = "returned"
            /\ ~isSyncing["d1"])
\* syncAll has returned after the transfers of two keys failed, and the latch
\* is released
C20_Witness ==
    \E s \in Slots :
        /\ calls["d1"][s].op = "syncAll" /\ calls["d1"][s].pc = "returned"
        /\ Cardinality(calls["d1"][s].failed) = 2
        /\ ~calls["d1"][s].result.success
        /\ ~isSyncing["d1"]

\* C21: reconnect and start-up triggers.  Whatever happened before, when
\* the network comes back online while sync is enabled the SyncProvider
\* makes one call of syncService.syncAll(), and when sync becomes enabled
\* while the device is online and has never synced it makes exactly one.
C21_Triggers ==
    [][LET before == syncProvider["d1"]
           after == syncProvider'["d1"] IN
       after # before
       => /\ (after.event = "online" /\ after.isEnabled) => after.attempts = 1
          /\ (after.event = "auth" /\ after.isEnabled /\ after.isOnline
                 /\ after.lastSyncAt = NoTs) => after.attempts = 1]_vars

\* the keys named by the errors of a result
ErrorKeys(result) == {result.errors[i][1] : i \in 1..Len(result.errors)}

\* C22: equal or missing timestamps mean no transfer.  For every syncable
\* key whose ledger timestamp and remote timestamp were equal, or both
\* absent, when a syncAll started, the remote row, the local raw value and the
\* ledger entry of the key are what they were when that syncAll has returned,
\* and the key is in none of uploaded, downloaded and errors.
C22_EqualMeansNoTransfer ==
    \A p \in Calls :
        LET d == p[1]
            c == calls[p[1]][p[2]]
        IN  SyncAllReturned(p[1], p[2]) =>
                \A K \in SyncableSet :
                    c.pre.timestamps[K] = PreCloudTs(c, K) =>
                        /\ NowRows(c, K) = PreRows(c, K)
                        /\ db[d][K] = c.pre.db[K]
                        /\ timestamps[d][K] = c.pre.timestamps[K]
                        /\ ~InSeq(K, c.result.uploaded)
                        /\ ~InSeq(K, c.result.downloaded)
                        /\ K \notin ErrorKeys(c.result)
\* a syncAll has returned that uploaded one key and found the timestamps of
\* another key, which has a remote row, equal
C22_Witness ==
    \E p \in Calls :
        LET c == calls[p[1]][p[2]] IN
        /\ SyncAllReturned(p[1], p[2])
        /\ c.result.uploaded # << >>
        /\ \E K \in SyncableSet :
               /\ c.pre.timestamps[K] # NoTs
               /\ c.pre.timestamps[K] = PreCloudTs(c, K)

\* the syncable keys of d that have local data (a raw value that is not empty)
WithLocalData(d) == {K \in SyncableSet : ~Falsy(db[d][K])}
\* the members of a sequence, and whether none occurs twice
Members(seq) == {seq[i] : i \in 1..Len(seq)}
NoDuplicates(seq) == Cardinality(Members(seq)) = Len(seq)

\* C23: uploadAll is unconditional.  After an uploadAll without a failed
\* upload, every syncable key with local data has a remote row whose
\* encrypted_data is the local raw value, whatever the ledger entry and the
\* remote timestamp were before; uploaded lists exactly those keys; and the
\* remote rows of the other syncable keys are what they were.
C23_UploadAllUnconditional ==
    \A p \in Calls :
        LET d == p[1]
            c == calls[p[1]][p[2]]
        IN  (c.op = "uploadAll" /\ c.pc = "returned" /\ c.result.success) =>
              /\ \A K \in WithLocalData(d) :
                     /\ NowRows(c, K) # {}
                     /\ \A r \in NowRows(c, K) : r.encrypted_data = db[d][K]
              /\ Members(c.result.uploaded) = WithLocalData(d)
              /\ NoDuplicates(c.result.uploaded)
              /\ \A K \in SyncableSet \ WithLocalData(d) : NowRows(c, K) = PreRows(c, K)
\* an uploadAll has uploaded a key whose remote row was newer than the
\* ledger entry and a key without a ledger entry, and has left alone the row
\* of a key without local data
C23_Witness ==
    \E p \in Calls :
        LET d == p[1]
            c == calls[p[1]][p[2]] IN
        /\ c.op = "uploadAll" /\ c.pc = "returned" /\ c.result.success
        /\ \E K \in WithLocalData(d) :
               c.pre.timestamps[K] # NoTs /\ PreCloudTs(c, K) > c.pre.timestamps[K]
        /\ \E K \in WithLocalData(d) : c.pre.timestamps[K] = NoTs
        /\ \E K \in SyncableSet \ WithLocalData(d) : PreRows(c, K) # {}

\* C24: syncAll reaches a fixed point in one pass.  When a syncAll has
\* returned success = true and nothing is written locally or remotely
\* afterwards, the syncAll that follows returns success = true with uploaded
\* and downloaded empty, and leaves the remote rows, the local store and the
\* ledger as they were.
C24_FixedPoint ==
    LET first == calls["d1"][1]
        second == calls["d1"][2]
    IN  (/\ SyncAllReturned("d1", 1) /\ first.result.success
         /\ SyncAllReturned("d1", 2))
        => /\ second.result.success
           /\ second.result.uploaded = << >>
           /\ second.result.downloaded = << >>
           /\ RowsOf(second.userId) = second.pre.rows
           /\ db["d1"] = second.pre.db
           /\ timestamps["d1"] = second.pre.timestamps

\* C25: a local write made during a sync is not lost.  When setItem(K, v)
\* completed while a syncAll was running and had read the ledger, then once
\* that syncAll has returned the local value of K is the written one and the
\* ledger entry of K is the time of the write.
C25_WriteDuringSyncKept ==
    \A K \in SyncableSet :
        (SyncAllReturned("d1", 1) /\ lastWrite["d1"][K] # NoWrite)
        => /\ db["d1"][K] = lastWrite["d1"][K].value
           /\ timestamps["d1"][K] = lastWrite["d1"][K].at

\* C26: the uploaded list is truthful.  When syncAll has returned, every key
\* of its uploaded list has a remote row whose encrypted_data is the local raw
\* value of the key.
C26_UploadedTruthful ==
    \A K \in SyncableSet :
        (SyncAllReturned("d1", 1) /\ InSeq(K, calls["d1"][1].result.uploaded))
        => /\ HasRow(calls["d1"][1].userId, K)
           /\ TheRow(calls["d1"][1].userId, K).encrypted_data = db["d1"][K]

\* C27: stored ciphertext stays decryptable by the accepted password.  Every
\* value of an encrypted key that is stored in the three-segment format is
\* read without an error by getItem under each password that
\* validatePassword accepts.
C27_CiphertextDecryptable ==
    \A K \in EncryptedSet, pw \in Passwords :
        (/\ db["d1"][K] # Null /\ LooksEncrypted(db["d1"][K])
         /\ validatePassword(db["d1"][PASSWORD_CHECK_KEY], pw).truth)
        => ~getItem(db["d1"][K], K, pw).threw

\* C28: no plaintext of a sensitive key reaches the remote store.  Every row
\* of user_data whose data_type is an encrypted key holds a value in the
\* three-segment encrypted format.
C28_NoPlaintextRemote ==
    \A r \in user_data :
        r.data_type \in EncryptedSet => LooksEncrypted(r.encrypted_data)

\* C29: restore reproduces the snapshot exactly.  When restoreBackup(id) has
\* returned success = true, the user's rows of user_data are exactly the
\* entries of the snapshot (data_type, encrypted_data, updated_at), and no
\* local value of a data_type absent from the snapshot is left.
C29_RestoreExact ==
    \A p \in Calls :
        LET d == p[1]
            c == calls[p[1]][p[2]]
        IN  (c.op = "restoreBackup" /\ c.pc = "returned" /\ c.result.success) =>
              /\ SnapshotOf(c) # {}
              /\ \A b \in SnapshotOf(c) :
                     /\ RowsOf(c.userId) =
                            {Row(c.userId, item.data_type, item.encrypted_data,
                                 item.updated_at) : item \in b.backup_data}
                     /\ \A k \in SyncableSet :
                            k \notin {item.data_type : item \in b.backup_data}
                            => db[d][k] = Null

\* C30: a write without a password fails cleanly.  A setItem(K, v) on an
\* encrypted key K made while no password is in memory throws, and leaves
\* every stored value and the timestamp ledger as they were.
C30_RejectedWriteClean ==
    [][\A K \in EncryptedSet :
          (/\ Returns("d1", "setItem") /\ returned'["d1"].key = K
           /\ password["d1"] = NoPassword)
          => /\ returned'["d1"].threw
             /\ db' = db
             /\ timestamps' = timestamps]_vars

\* C30 witness: a setItem on an encrypted key that holds a value and a ledger
\* entry has thrown for want of a password.
C30_Witness ==
    /\ returned["d1"].op = "setItem" /\ returned["d1"].threw
    /\ returned["d1"].key \in EncryptedSet
    /\ password["d1"] = NoPassword
    /\ db["d1"][returned["d1"].key] # Null
    /\ timestamps["d1"][returned["d1"].key] # NoTs
====
